---- MODULE Spec2Model ----
(***************************************************************************)
(* A model of the TSV-to-YAML shot-list converter: the cell normalizer     *)
(* (TSVReader.clean_value), the carry-forward fold of rows into a          *)
(* three-level tree (DataProcessor.process_tsv_data), the materializer     *)
(* (DataProcessor.build_project_structure), the per-source pipeline and    *)
(* the batch (TSVToYAMLConverter.convert_tsv_to_yaml, process_files), and, *)
(* beside the pipeline, Config, analyze_files and the ErrorHandler.        *)
(*                                                                         *)
(* Strings are sequences of one-character strings; BOM and ZWSP stand for  *)
(* U+FEFF and U+200B.  Every Python value the model handles is a record    *)
(* [k, s, n]: k is the kind, s the characters of a string (or the decimal  *)
(* text of a number), n the value of an integer.                           *)
(***************************************************************************)
EXTENDS Integers, Sequences, FiniteSets, TLC

(* ------------------------------ bounds -------------------------------- *)

\* The longest DataFrame (number of rows) a fold is run on.
MaxRows == 3

\* The longest raw string given to clean_value in the normalizer runs.
MaxLen == 3

\* The most sources a batch finds, and the most sources one processor folds.
MaxFiles == 2

\* The most calls of process_files on one converter.
MaxCalls == 2

(* ------------------------------ values -------------------------------- *)

\* pandas' missing sentinel (NaN), what read_csv gives for an empty cell.
NaN == [k |-> "nan", s |-> <<>>, n |-> 0]

\* Python's None.
None == [k |-> "none", s |-> <<>>, n |-> 0]

\* A Python str.
Str(s) == [k |-> "str", s |-> s, n |-> 0]

\* A Python int.
Int_(n) == [k |-> "int", s |-> <<>>, n |-> n]

\* A non-string, non-missing scalar (a number), with its str() text.
Num(s) == [k |-> "num", s |-> s, n |-> 0]

BOM == "<U+FEFF>"

ZWSP == "<U+200B>"

\* The characters str.strip() removes (whitespace); BOM and ZWSP are not.
Whitespace == {" ", "\t"}

Digits == {"0", "1", "2", "3", "4", "5", "6", "7", "8", "9"}

LowerAlpha == <<"a", "b", "c", "d", "e", "f", "g", "h", "i", "j", "k", "l", "m",
                "n", "o", "p", "q", "r", "s", "t", "u", "v", "w", "x", "y", "z">>

UpperAlpha == <<"A", "B", "C", "D", "E", "F", "G", "H", "I", "J", "K", "L", "M",
                "N", "O", "P", "Q", "R", "S", "T", "U", "V", "W", "X", "Y", "Z">>

(* ------------------------- string primitives -------------------------- *)

RECURSIVE LStrip(_)
\* str.lstrip(): drop leading whitespace.
LStrip(s) ==
    IF s = <<>> THEN <<>>
    ELSE IF Head(s) \in Whitespace THEN LStrip(Tail(s)) ELSE s

RECURSIVE RStrip(_)
\* str.rstrip(): drop trailing whitespace.
RStrip(s) ==
    IF s = <<>> THEN <<>>
    ELSE IF s[Len(s)] \in Whitespace THEN RStrip(SubSeq(s, 1, Len(s) - 1)) ELSE s

\* str.strip()
Strip(s) == RStrip(LStrip(s))

RECURSIVE RemoveChar(_, _)
\* str.replace(c, ""): every occurrence of c is removed.
RemoveChar(s, c) ==
    IF s = <<>> THEN <<>>
    ELSE IF Head(s) = c THEN RemoveChar(Tail(s), c)
         ELSE <<Head(s)>> \o RemoveChar(Tail(s), c)

\* str.replace(a, b) for single characters.
ReplaceChar(s, a, b) == [i \in 1..Len(s) |-> IF s[i] = a THEN b ELSE s[i]]

ToLower(c) ==
    IF \E i \in 1..Len(UpperAlpha) : UpperAlpha[i] = c
    THEN LowerAlpha[CHOOSE i \in 1..Len(UpperAlpha) : UpperAlpha[i] = c]
    ELSE c

ToUpper(c) ==
    IF \E i \in 1..Len(LowerAlpha) : LowerAlpha[i] = c
    THEN UpperAlpha[CHOOSE i \in 1..Len(LowerAlpha) : LowerAlpha[i] = c]
    ELSE c

\* str.lower()
Lower(s) == [i \in 1..Len(s) |-> ToLower(s[i])]

\* str.capitalize(): first character upper-cased, the rest lower-cased.
Capitalize(s) == [i \in 1..Len(s) |-> IF i = 1 THEN ToUpper(s[i]) ELSE ToLower(s[i])]

DigitVal(c) ==
    CASE c = "0" -> 0 [] c = "1" -> 1 [] c = "2" -> 2 [] c = "3" -> 3 [] c = "4" -> 4
      [] c = "5" -> 5 [] c = "6" -> 6 [] c = "7" -> 7 [] c = "8" -> 8 [] c = "9" -> 9
      [] OTHER -> 0

RECURSIVE DecVal(_)
\* The natural number a sequence of decimal digits denotes.
DecVal(s) ==
    IF s = <<>> THEN 0 ELSE 10 * DecVal(SubSeq(s, 1, Len(s) - 1)) + DigitVal(s[Len(s)])

AllDigits(s) == \A i \in 1..Len(s) : s[i] \in Digits

\* A sign-less body after the optional sign of a numeric literal.
Unsigned(s) == IF s # <<>> /\ Head(s) \in {"+", "-"} THEN Tail(s) ELSE s

Sign(s) == IF s # <<>> /\ Head(s) = "-" THEN -1 ELSE 1

\* Whether int(str) accepts s: optional whitespace, optional sign, digits.
IntOk(s) ==
    LET b == Unsigned(Strip(s)) IN b # <<>> /\ AllDigits(b)

\* int(str) for an accepted s.
IntVal(s) == Sign(Strip(s)) * DecVal(Unsigned(Strip(s)))

\* Whether float(str) accepts s: digits with at most one decimal point and at
\* least one digit (exponents, inf and nan are outside the modelled alphabet).
FloatOk(s) ==
    LET b == Unsigned(Strip(s))
        d == RemoveChar(b, ".")
    IN  /\ d # <<>>
        /\ AllDigits(d)
        /\ Len(b) - Len(d) <= 1

RECURSIVE IntPart(_)
\* The digits before the decimal point.
IntPart(s) ==
    IF s = <<>> \/ Head(s) = "." THEN <<>> ELSE <<Head(s)>> \o IntPart(Tail(s))

\* The digits after the decimal point.
FracPart(s) ==
    IF \E i \in 1..Len(s) : s[i] = "."
    THEN SubSeq(s, (CHOOSE i \in 1..Len(s) : s[i] = ".") + 1, Len(s))
    ELSE <<>>

\* round(float(str)) taken for int(float(str)): away from zero from a half on
\* (the tie-breaking of exact halves aside).
FloatTrunc_rounds(s) ==
    LET b == Unsigned(Strip(s))
    IN  Sign(Strip(s)) * (DecVal(IntPart(b))
                            + IF FracPart(b) # <<>> /\ DigitVal(FracPart(b)[1]) >= 5
                              THEN 1 ELSE 0)

\* int(float(str)) for an accepted s: truncation toward zero.
FloatTrunc(s) == Sign(Strip(s)) * DecVal(IntPart(Unsigned(Strip(s))))

(* ---------------------------- dictionaries ----------------------------- *)

\* An empty dict.
EmptyDict == [x \in {} |-> None]

\* dict.get(key): the value, or None when the key is missing.
Get(d, key) == IF key \in DOMAIN d THEN d[key] ELSE None

\* d[key] = value
Put(d, key, value) == [x \in DOMAIN d \cup {key} |-> IF x = key THEN value ELSE d[x]]

\* Python truthiness of a value: None, "" and 0 are false.
Truthy(v) ==
    CASE v.k = "str" -> v.s # <<>>
      [] v.k = "int" -> v.n # 0
      [] v.k = "num" -> ~(AllDigits(v.s) /\ DecVal(v.s) = 0)
      [] OTHER -> FALSE

(* --------------------------- cell normalizer -------------------------- *)

\* TSVReader._apply_field_mapping: the label of value in the column's table,
\* None when there is no table, no table for the column or no entry.
apply_field_mapping(mappings, field_name, value) ==
    IF DOMAIN mappings = {} THEN None
    ELSE LET table == IF field_name \in DOMAIN mappings
                      THEN mappings[field_name] ELSE EmptyDict
         IN  IF value \in DOMAIN table THEN Str(table[value]) ELSE None

\* clean_value without the strip() calls.
clean_value_unstripped(mappings, value, field_name) ==
    IF value.k \in {"nan", "none"} \/ (value.k = "str" /\ value.s = <<>>)
    THEN None
    ELSE IF value.k = "str"
    THEN LET cleaned == RemoveChar(RemoveChar(value.s, BOM), ZWSP)
         IN  IF cleaned = <<>> THEN None
             ELSE IF field_name # "" /\ DOMAIN mappings # {}
                     /\ Truthy(apply_field_mapping(mappings, field_name, cleaned))
                  THEN apply_field_mapping(mappings, field_name, cleaned)
                  ELSE Str(cleaned)
    ELSE value

\* clean_value removing the byte-order mark alone.
clean_value_keeps_zwsp(mappings, value, field_name) ==
    IF value.k \in {"nan", "none"} \/ (value.k = "str" /\ value.s = <<>>)
       \/ Strip(value.s) = <<>>
    THEN None
    ELSE IF value.k = "str"
    THEN LET cleaned == RemoveChar(Strip(value.s), BOM)
         IN  IF cleaned = <<>> THEN None
             ELSE IF field_name # "" /\ DOMAIN mappings # {}
                     /\ Truthy(apply_field_mapping(mappings, field_name, cleaned))
                  THEN apply_field_mapping(mappings, field_name, cleaned)
                  ELSE Str(cleaned)
    ELSE value

\* TSVReader.clean_value.  field_name = "" stands for no column name (None).
clean_value(mappings, value, field_name) ==
    IF value.k \in {"nan", "none"} \/ (value.k = "str" /\ value.s = <<>>)
       \/ Strip(value.s) = <<>>
    THEN None
    ELSE IF value.k = "str"
    THEN LET cleaned == RemoveChar(RemoveChar(Strip(value.s), BOM), ZWSP)
         IN  IF cleaned = <<>> THEN None
             ELSE IF field_name # "" /\ DOMAIN mappings # {}
                     /\ Truthy(apply_field_mapping(mappings, field_name, cleaned))
                  THEN apply_field_mapping(mappings, field_name, cleaned)
                  ELSE Str(cleaned)
    ELSE value

\* TSVReader.clean_row_data: every cell of the row cleaned under its column.
clean_row_data(mappings, row) ==
    [col \in DOMAIN row |-> clean_value(mappings, row[col], col)]

\* is_valid_row accepting a row that has any key.
is_valid_row_any_key(row_data) ==
    \/ Truthy(Get(row_data, "SHOT_NUM"))
    \/ Truthy(Get(row_data, "PHASE_NUM"))
    \/ Truthy(Get(row_data, "SCENE_NUM"))

\* TSVReader.is_valid_row: the validity gate.
is_valid_row(row_data) == Truthy(Get(row_data, "SHOT_NUM"))

(* ------------------------------ the fold ------------------------------ *)

FormattedFields ==
    {"location_name", "specific_area", "period", "season", "weather", "speed", "type"}

\* DataProcessor._format_value
format_value(value, field_name) ==
    IF ~Truthy(value) THEN value
    ELSE IF field_name \in FormattedFields
         THEN Str(Capitalize(Lower(ReplaceChar(value.s, "_", " "))))
         ELSE value

\* int(x) if x is truthy, else None (the time-period bounds of a phase).
IntOrNone(v) == IF Truthy(v) THEN Int_(IntVal(v.s)) ELSE None

\* Whether creating the phase raises: int() of a range bound that is no
\* integer literal.
EnsurePhaseRaises(phases_dict, phase_num, row_data) ==
    /\ phase_num \notin DOMAIN phases_dict
    /\ \/ Truthy(Get(row_data, "PHASE_START")) /\ ~IntOk(Get(row_data, "PHASE_START").s)
       \/ Truthy(Get(row_data, "PHASE_END")) /\ ~IntOk(Get(row_data, "PHASE_END").s)

\* _ensure_phase_exists refreshing the time period of an existing phase.
ensure_phase_exists_refreshes(phases_dict, phase_num, row_data) ==
    LET period == [start |-> IntOrNone(Get(row_data, "PHASE_START")),
                   end |-> IntOrNone(Get(row_data, "PHASE_END"))]
    IN  IF phase_num \notin DOMAIN phases_dict
        THEN Put(phases_dict, phase_num,
                 [phase_number |-> phase_num, time_period |-> period,
                  scenes |-> EmptyDict])
        ELSE [phases_dict EXCEPT ![phase_num].time_period = period]

\* DataProcessor._ensure_phase_exists
ensure_phase_exists(phases_dict, phase_num, row_data) ==
    IF phase_num \notin DOMAIN phases_dict
    THEN Put(phases_dict, phase_num,
             [phase_number |-> phase_num,
              time_period |-> [start |-> IntOrNone(Get(row_data, "PHASE_START")),
                               end |-> IntOrNone(Get(row_data, "PHASE_END"))],
              scenes |-> EmptyDict])
    ELSE phases_dict

\* The scene entry a row seeds.
NewScene(scene_num, row_data) ==
    [scene_number |-> scene_num,
     comment |-> Get(row_data, "SCENE_CONTEXT_COMMENT"),
     period |-> format_value(Get(row_data, "PERIOD"), "period"),
     season |-> format_value(Get(row_data, "SEASON"), "season"),
     weather |-> format_value(Get(row_data, "WEATHER"), "weather"),
     location |-> [type |-> Get(row_data, "LOC_TYPE"),
                   location_name |-> format_value(Get(row_data, "LOCATION"),
                                                  "location_name")],
     diurnal |-> Get(row_data, "DIURNAL"),
     light_source |-> Get(row_data, "LIGHT_SOURCE(S)"),
     shots |-> <<>>]

\* DataProcessor._ensure_scene_exists
ensure_scene_exists(phases_dict, phase_num, scene_num, row_data) ==
    IF scene_num \notin DOMAIN phases_dict[phase_num].scenes
    THEN [phases_dict EXCEPT ![phase_num].scenes =
              Put(@, scene_num, NewScene(scene_num, row_data))]
    ELSE phases_dict

\* _create_shot_data comparing the flag without regard to case.
create_shot_data_any_case(shot_num, row_data, idx) ==
    LET shot_data ==
            [shot_number |-> shot_num,
             camera_angle |-> Get(row_data, "ANGLE"),
             specific_area |-> format_value(Get(row_data, "SPECIFIC AREA"),
                                            "specific_area"),
             description |-> Get(row_data, "SHOT_DESCRIPTION"),
             camera_movement |->
                 [speed |-> format_value(Get(row_data, "MOVE_SPEED"), "speed"),
                  type |-> format_value(Get(row_data, "MOVE_TYPE"), "type"),
                  video_prompt |-> Get(row_data, "VIDEO_PROMPT")],
             shot_timecode |-> [in_time |-> Get(row_data, "IN"),
                                out_time |-> Get(row_data, "OUT")],
             image_prompt |-> Get(row_data, "IMAGE_PROMPT"),
             src_row |-> idx]
    IN  IF Get(row_data, "OREF").k = "str"
           /\ Lower(Get(row_data, "OREF").s) = <<"t", "r", "u", "e">>
        THEN Put(shot_data, "oref", Get(row_data, "OREF"))
        ELSE shot_data

\* DataProcessor._create_shot_data.  src_row is a history annotation, not a
\* field of the program: the index in df of the row the shot was built from.
create_shot_data(shot_num, row_data, idx) ==
    LET shot_data ==
            [shot_number |-> shot_num,
             camera_angle |-> Get(row_data, "ANGLE"),
             specific_area |-> format_value(Get(row_data, "SPECIFIC AREA"),
                                            "specific_area"),
             description |-> Get(row_data, "SHOT_DESCRIPTION"),
             camera_movement |->
                 [speed |-> format_value(Get(row_data, "MOVE_SPEED"), "speed"),
                  type |-> format_value(Get(row_data, "MOVE_TYPE"), "type"),
                  video_prompt |-> Get(row_data, "VIDEO_PROMPT")],
             shot_timecode |-> [in_time |-> Get(row_data, "IN"),
                                out_time |-> Get(row_data, "OUT")],
             image_prompt |-> Get(row_data, "IMAGE_PROMPT"),
             src_row |-> idx]
    IN  IF Get(row_data, "OREF") = Str(<<"T", "R", "U", "E">>)
        THEN Put(shot_data, "oref", Get(row_data, "OREF"))
        ELSE shot_data

\* _add_shot_to_scene keyed by the shot number: a repeated number is merged.
add_shot_to_scene_keyed(phases_dict, phase_num, scene_num, shot_num, row_data, idx) ==
    IF \E k \in 1..Len(phases_dict[phase_num].scenes[scene_num].shots) :
          phases_dict[phase_num].scenes[scene_num].shots[k].shot_number = shot_num
    THEN phases_dict
    ELSE [phases_dict EXCEPT ![phase_num].scenes[scene_num].shots =
             Append(@, create_shot_data(shot_num, row_data, idx))]

\* DataProcessor._add_shot_to_scene
add_shot_to_scene(phases_dict, phase_num, scene_num, shot_num, row_data, idx) ==
    [phases_dict EXCEPT ![phase_num].scenes[scene_num].shots =
         Append(@, create_shot_data(shot_num, row_data, idx))]

\* _process_row_data appending the Leaf only under a Subgroup that was there
\* before the row: a row that creates its Subgroup leaves it empty.
process_row_data_seeds_only(phases_dict, row_data, phase_num, scene_num, shot_num, idx) ==
    IF phase_num \in DOMAIN phases_dict /\ scene_num \in DOMAIN phases_dict[phase_num].scenes
    THEN add_shot_to_scene(phases_dict, phase_num, scene_num, shot_num, row_data, idx)
    ELSE ensure_scene_exists(
             ensure_phase_exists(phases_dict, phase_num, row_data),
             phase_num, scene_num, row_data)

\* DataProcessor._process_row_data
process_row_data(phases_dict, row_data, phase_num, scene_num, shot_num, idx) ==
    add_shot_to_scene(
        ensure_scene_exists(
            ensure_phase_exists(phases_dict, phase_num, row_data),
            phase_num, scene_num, row_data),
        phase_num, scene_num, shot_num, row_data, idx)

\* The state process_tsv_data starts from: an empty tree, both keys unset.
FreshFold ==
    [phases_dict |-> EmptyDict, current_phase |-> None, current_scene |-> None,
     raised |-> FALSE]

\* Whether int(row_data["PHASE_NUM"]) raises.
CarryPhaseRaises(row_data) ==
    Truthy(Get(row_data, "PHASE_NUM")) /\ ~IntOk(Get(row_data, "PHASE_NUM").s)

\* carry_phase without the carry: an absent PHASE_NUM unsets the key.
carry_phase_forgets(cur_phase, row_data) ==
    IF Truthy(Get(row_data, "PHASE_NUM"))
    THEN Int_(IntVal(Get(row_data, "PHASE_NUM").s))
    ELSE None

\* The carry-forward update of the Group key: a present PHASE_NUM overwrites
\* current_phase, an absent one keeps it.
carry_phase(cur_phase, row_data) ==
    IF Truthy(Get(row_data, "PHASE_NUM"))
    THEN Int_(IntVal(Get(row_data, "PHASE_NUM").s))
    ELSE cur_phase

\* SceneSkipped when a parse failure falls back to the carried key.
SceneSkipped_never(row_data) == FALSE

\* SceneSkipped when the key is parsed with int() alone.
SceneSkipped_unless_int(row_data) ==
    Truthy(Get(row_data, "SCENE_NUM")) /\ ~IntOk(Get(row_data, "SCENE_NUM").s)

\* Whether int(float(row_data["SCENE_NUM"])) raises the ValueError the loop
\* catches to skip the row.
SceneSkipped(row_data) ==
    Truthy(Get(row_data, "SCENE_NUM")) /\ ~FloatOk(Get(row_data, "SCENE_NUM").s)

\* carry_scene with the key unset by a row that names a new Group key.
carry_scene_resets(cur_scene, row_data) ==
    IF Truthy(Get(row_data, "SCENE_NUM")) /\ FloatOk(Get(row_data, "SCENE_NUM").s)
    THEN Int_(FloatTrunc(Get(row_data, "SCENE_NUM").s))
    ELSE IF Truthy(Get(row_data, "PHASE_NUM")) THEN None ELSE cur_scene

\* The carry-forward update of the Subgroup key: assigned when SCENE_NUM is
\* present and parses, kept otherwise.
carry_scene(cur_scene, row_data) ==
    IF Truthy(Get(row_data, "SCENE_NUM")) /\ FloatOk(Get(row_data, "SCENE_NUM").s)
    THEN Int_(FloatTrunc(Get(row_data, "SCENE_NUM").s))
    ELSE cur_scene

\* The resolution gate testing the Group key alone.
unresolved_phase_only(cur_phase, cur_scene) == cur_phase = None

\* The resolution gate: the row is dropped while a key is unset.
unresolved(cur_phase, cur_scene) == cur_phase = None \/ cur_scene = None

\* str(row_data["SHOT_NUM"]).replace(BOM, ""), the text given to int().
ShotText(row_data) == RemoveChar(Get(row_data, "SHOT_NUM").s, BOM)

\* fold_row in which a row that is dropped leaves the carried keys as they
\* were: the keys are assigned only once the row is known to be filed.
fold_row_drop_restores(mappings, st, row, idx) ==
    LET row_data == clean_row_data(mappings, row)
        Raise == [FreshFold EXCEPT !.raised = TRUE]
    IN  IF ~is_valid_row(row_data) THEN st
        ELSE IF CarryPhaseRaises(row_data) THEN Raise
        ELSE
          LET cur_phase == carry_phase(st.current_phase, row_data)
          IN  IF SceneSkipped(row_data) THEN st
              ELSE
                LET cur_scene == carry_scene(st.current_scene, row_data)
                    kept == [st EXCEPT !.current_phase = cur_phase,
                                       !.current_scene = cur_scene]
                IN  IF unresolved(cur_phase, cur_scene) THEN st
                    ELSE IF ~IntOk(ShotText(row_data)) THEN Raise
                    ELSE IF EnsurePhaseRaises(st.phases_dict, cur_phase.n, row_data)
                    THEN Raise
                    ELSE [kept EXCEPT !.phases_dict =
                              process_row_data(st.phases_dict, row_data, cur_phase.n,
                                               cur_scene.n, IntVal(ShotText(row_data)),
                                               idx)]

\* fold_row parsing the Leaf number right after the validity gate, before the
\* keys are looked at.
fold_row_parses_leaf_first(mappings, st, row, idx) ==
    LET row_data == clean_row_data(mappings, row)
        Raise == [FreshFold EXCEPT !.raised = TRUE]
    IN  IF ~is_valid_row(row_data) THEN st
        ELSE IF ~IntOk(ShotText(row_data)) THEN Raise
        ELSE IF CarryPhaseRaises(row_data) THEN Raise
        ELSE
          LET cur_phase == carry_phase(st.current_phase, row_data)
          IN  IF SceneSkipped(row_data)
              THEN [st EXCEPT !.current_phase = cur_phase]
              ELSE
                LET cur_scene == carry_scene(st.current_scene, row_data)
                    kept == [st EXCEPT !.current_phase = cur_phase,
                                       !.current_scene = cur_scene]
                IN  IF unresolved(cur_phase, cur_scene) THEN kept
                    ELSE IF EnsurePhaseRaises(st.phases_dict, cur_phase.n, row_data)
                    THEN Raise
                    ELSE [kept EXCEPT !.phases_dict =
                              process_row_data(st.phases_dict, row_data, cur_phase.n,
                                               cur_scene.n, IntVal(ShotText(row_data)),
                                               idx)]

\* One iteration of the loop of DataProcessor.process_tsv_data on row, the
\* idx-th row of the frame.  raised: an exception left the loop (int() of a
\* PHASE_NUM, SHOT_NUM, PHASE_START or PHASE_END that is no integer literal);
\* the local tree is then lost.
fold_row(mappings, st, row, idx) ==
    LET row_data == clean_row_data(mappings, row)
        Raise == [FreshFold EXCEPT !.raised = TRUE]
    IN  IF ~is_valid_row(row_data) THEN st
        ELSE IF CarryPhaseRaises(row_data) THEN Raise
        ELSE
          LET cur_phase == carry_phase(st.current_phase, row_data)
          IN  IF SceneSkipped(row_data)
              THEN [st EXCEPT !.current_phase = cur_phase]
              ELSE
                LET cur_scene == carry_scene(st.current_scene, row_data)
                    kept == [st EXCEPT !.current_phase = cur_phase,
                                       !.current_scene = cur_scene]
                IN  IF unresolved(cur_phase, cur_scene) THEN kept
                    ELSE IF ~IntOk(ShotText(row_data)) THEN Raise
                    ELSE IF EnsurePhaseRaises(st.phases_dict, cur_phase.n, row_data)
                    THEN Raise
                    ELSE [kept EXCEPT !.phases_dict =
                              process_row_data(st.phases_dict, row_data, cur_phase.n,
                                               cur_scene.n, IntVal(ShotText(row_data)),
                                               idx)]

RECURSIVE FoldFrom(_, _, _, _)
\* The loop of process_tsv_data from the idx-th row of df on, st being the
\* state it has reached; it ends with the frame or when a row raises.
FoldFrom(mappings, st, rows, idx) ==
    IF idx > Len(rows) \/ st.raised THEN st
    ELSE FoldFrom(mappings, fold_row(mappings, st, rows[idx], idx), rows, idx + 1)

\* DataProcessor.process_tsv_data on a whole frame.
process_tsv_data(mappings, rows) == FoldFrom(mappings, FreshFold, rows, 1)

\* A fold that starts with the keys the previous fold of the processor left.
start_fold_reuses(previous) == [previous EXCEPT !.phases_dict = EmptyDict, !.raised = FALSE]

\* The state a call of process_tsv_data starts from, previous being the state
\* the processor's last fold ended in: the locals are assigned anew.
start_fold(previous) == FreshFold

(* --------------------------- the materializer ------------------------- *)

RECURSIVE SortedDescending(_)
\* sorted(keys, reverse=True)
SortedDescending(keys) ==
    IF keys = {} THEN <<>>
    ELSE LET most == CHOOSE x \in keys : \A y \in keys : y <= x
         IN  <<most>> \o SortedDescending(keys \ {most})

RECURSIVE Sorted(_)
\* sorted(keys): the keys of a dict in ascending order.
Sorted(keys) ==
    IF keys = {} THEN <<>>
    ELSE LET least == CHOOSE x \in keys : \A y \in keys : x <= y
         IN  <<least>> \o Sorted(keys \ {least})

\* Shot(**shot_kwargs) raises a validation error when a toggle left out
\* camera_movement or shot_timecode, which the Shot model requires.
ShotModelRaises(no_camera_movement, no_shot_timecode) ==
    no_camera_movement \/ no_shot_timecode

\* DataProcessor._create_shot_model, when Shot(**shot_kwargs) validates.
create_shot_model(shot_data) ==
    [shot_number |-> shot_data.shot_number,
     oref |-> Get(shot_data, "oref"),
     camera_angle |-> shot_data.camera_angle,
     specific_area |-> shot_data.specific_area,
     description |-> shot_data.description,
     camera_movement |-> shot_data.camera_movement,
     shot_timecode |-> shot_data.shot_timecode,
     image_prompt |-> shot_data.image_prompt,
     src_row |-> shot_data.src_row]

\* DataProcessor._create_scene_model
create_scene_model(scene_data) ==
    [scene_number |-> scene_data.scene_number,
     comment |-> scene_data.comment,
     period |-> scene_data.period,
     season |-> scene_data.season,
     weather |-> scene_data.weather,
     location |-> scene_data.location,
     diurnal |-> scene_data.diurnal,
     light_source |-> scene_data.light_source,
     shots |-> [i \in 1..Len(scene_data.shots) |-> create_shot_model(scene_data.shots[i])]]

\* DataProcessor._create_phase_model
create_phase_model(phase_data) ==
    LET order == Sorted(DOMAIN phase_data.scenes)
    IN  [phase_number |-> phase_data.phase_number,
         time_period |-> phase_data.time_period,
         scenes |-> [i \in 1..Len(order) |->
                        create_scene_model(phase_data.scenes[order[i]])]]

\* DataProcessor.initialize_project
initialize_project(project_title, total_shots) ==
    [title |-> project_title, total_shots |-> total_shots, phases |-> <<>>]

\* DataProcessor.build_project_structure
build_project_structure(project, phases_dict) ==
    LET order == Sorted(DOMAIN phases_dict)
    IN  [project EXCEPT !.phases =
            @ \o [i \in 1..Len(order) |-> create_phase_model(phases_dict[order[i]])]]

\* Whether build_project_structure raises: some shot is materialized with a
\* required block left out.
BuildRaises(phases_dict, no_camera_movement, no_shot_timecode) ==
    /\ ShotModelRaises(no_camera_movement, no_shot_timecode)
    /\ \E p \in DOMAIN phases_dict : \E s \in DOMAIN phases_dict[p].scenes :
          phases_dict[p].scenes[s].shots # <<>>

(* ------------------- the tree given to the serializer ------------------ *)

\* The fields of a pydantic model that model_dump(exclude_none=True) keeps:
\* those of fields whose value is not None.
ExcludeNone(model, fields) ==
    [f \in {g \in fields : Get(model, g) # None} |-> model[f]]

\* A dict with the entries of both.
Merge(a, b) == [x \in DOMAIN a \cup DOMAIN b |-> IF x \in DOMAIN a THEN a[x] ELSE b[x]]

\* Shot.model_dump(exclude_none=True): a nested model is dumped as a dict of
\* its fields that are not None, an empty dict when it has none.
dump_shot(shot) ==
    Merge([shot_number |-> shot.shot_number,
           camera_movement |->
               ExcludeNone(shot.camera_movement, {"speed", "type", "video_prompt"}),
           shot_timecode |-> ExcludeNone(shot.shot_timecode, {"in_time", "out_time"})],
          ExcludeNone(shot, {"oref", "camera_angle", "specific_area", "description",
                             "image_prompt"}))

\* Scene.model_dump(exclude_none=True)
dump_scene(scene) ==
    Merge([scene_number |-> scene.scene_number,
           location |-> ExcludeNone(scene.location, {"type", "location_name"}),
           shots |-> [i \in 1..Len(scene.shots) |-> dump_shot(scene.shots[i])]],
          ExcludeNone(scene, {"comment", "period", "season", "weather", "diurnal",
                              "light_source"}))

\* Phase.model_dump(exclude_none=True)
dump_phase(phase) ==
    [phase_number |-> phase.phase_number,
     time_period |-> ExcludeNone(phase.time_period, {"start", "end"}),
     scenes |-> [i \in 1..Len(phase.scenes) |-> dump_scene(phase.scenes[i])]]

\* project.model_dump(exclude_none=True), what write_yaml_file gives yaml.dump
\* under the key "project".
model_dump(proj) ==
    [title |-> proj.title,
     total_shots |-> proj.total_shots,
     phases |-> [i \in 1..Len(proj.phases) |-> dump_phase(proj.phases[i])]]

(* ----------------------------- the pipeline --------------------------- *)

VARIABLES
    field_mappings,  \* TSVReader.field_mappings: column -> (code -> label)
    df,              \* the rows of the DataFrame iterated so far
    phases_dict,     \* the intermediate tree
    current_phase,   \* carried Group key: None or an int
    current_scene,   \* carried Subgroup key: None or an int
    pc,              \* "fold", "built" (a Document exists) or "failed";
                     \* "clean" and "cleaned" in the runs of the normalizer alone;
                     \* "idle" and "next" in a batch; "config", "analyze" and
                     \* "handler" (and what follows them) beside the pipeline
    project,         \* the Document, None until materialized
    raw,             \* the value given to clean_value
    field,           \* the column name given to clean_value ("" for none)
    cleaned,         \* what clean_value returned
    build_options,   \* <<no_camera_movement, no_shot_timecode>> as given to
                     \* build_project_structure; <<>> before it is called
    tsv_files,       \* process_files: the sources found, in processing order
    file_idx,        \* process_files: position in tsv_files of the current source
    stats,           \* TSVToYAMLConverter.stats
    returns,         \* what each finished call of process_files returned
    converted,       \* the calls of convert_tsv_to_yaml made so far (history):
                     \* call of process_files, source, result
    config_data,     \* the keyword arguments given to Config(...)
    config,          \* the Config constructed from them; None when there is none
    input_dir,       \* analyze_files: the entries under the input directory
    analysis_results,\* analyze_files: what it returned; None before the call
    handler          \* an ErrorHandler: its errors and its stats

vars ==
    <<field_mappings, df, phases_dict, current_phase, current_scene, pc, project,
      raw, field, cleaned, build_options, tsv_files, file_idx, stats, returns,
      converted, config_data, config, input_dir, analysis_results, handler>>

batch_vars == <<tsv_files, file_idx, stats, returns, converted>>

normalizer_vars == <<raw, field, cleaned>>

fold_vars == <<df, phases_dict, current_phase, current_scene, project, build_options>>

config_vars == <<config_data, config>>

analysis_vars == <<input_dir, analysis_results>>

\* What the conversion pipeline never touches.
side_vars == <<config_vars, analysis_vars, handler>>

\* ErrorHandler.__init__
NewHandler ==
    [errors |-> <<>>,
     stats |-> [total_files |-> 0, processed_files |-> 0, failed_files |-> 0,
                start_time |-> None, end_time |-> None]]

\* No Config was asked for, no analysis has run, the handler is new.
NoSide ==
    /\ config_data = EmptyDict
    /\ config = None
    /\ input_dir = <<>>
    /\ analysis_results = None
    /\ handler = NewHandler

\* TSVToYAMLConverter.__init__: the statistics of a new converter.
NewStats == [total_files |-> 0, processed_files |-> 0, failed_files |-> 0, errors |-> <<>>]

\* No batch is running: a converter just constructed.
NoBatch ==
    /\ tsv_files = <<>>
    /\ file_idx = 0
    /\ stats = NewStats
    /\ returns = <<>>
    /\ converted = <<>>

\* The title convert_tsv_to_yaml gives the project.
ProjectTitle == <<"T">>

\* No mapping file: Config.load_mappings returns {}.
NoMappings == EmptyDict

\* A mapping file with tables for two descriptive columns.
SomeMappings ==
    [c \in {"LOC_TYPE", "PERIOD"} |->
        IF c = "LOC_TYPE" THEN [x \in {<<"E", "X", "T">>} |-> <<"E", "x", "t">>]
        ELSE [x \in {<<"M", "O", "D">>} |-> <<"M", "o", "d">>]]

Columns ==
    {"PHASE_NUM", "PHASE_START", "PHASE_END", "SCENE_NUM", "SCENE_CONTEXT_COMMENT",
     "PERIOD", "SEASON", "WEATHER", "LOC_TYPE", "LOCATION", "DIURNAL",
     "LIGHT_SOURCE(S)", "SHOT_NUM", "ANGLE", "SPECIFIC AREA", "SHOT_DESCRIPTION",
     "MOVE_SPEED", "MOVE_TYPE", "VIDEO_PROMPT", "IN", "OUT", "IMAGE_PROMPT", "OREF"}

\* A row whose cells are all empty.
BlankRow == [c \in Columns |-> NaN]

\* A row with the three key cells given and every other cell empty.
KeyRow(phase, scene, shot) ==
    [BlankRow EXCEPT !["PHASE_NUM"] = phase, !["SCENE_NUM"] = scene, !["SHOT_NUM"] = shot]

\* The state when convert_tsv_to_yaml starts a source, the reader holding one of
\* the mapping tables in tables.
InitWith(tables) ==
    /\ field_mappings \in tables
    /\ df = <<>>
    /\ phases_dict = FreshFold.phases_dict
    /\ current_phase = FreshFold.current_phase
    /\ current_scene = FreshFold.current_scene
    /\ pc = "fold"
    /\ project = None
    /\ build_options = <<>>
    /\ raw = None
    /\ field = ""
    /\ cleaned = None
    /\ NoBatch
    /\ NoSide

\* One iteration of the loop of process_tsv_data: the next row of the frame.
ProcessRow(row) ==
    /\ pc = "fold"
    /\ Len(df) < MaxRows
    /\ LET st == [phases_dict |-> phases_dict, current_phase |-> current_phase,
                  current_scene |-> current_scene, raised |-> FALSE]
           new == fold_row(field_mappings, st, row, Len(df) + 1)
       IN  /\ df' = Append(df, row)
           /\ phases_dict' = new.phases_dict
           /\ current_phase' = new.current_phase
           /\ current_scene' = new.current_scene
           /\ pc' = IF new.raised THEN "failed" ELSE "fold"
    /\ UNCHANGED <<side_vars, field_mappings, project, build_options, normalizer_vars, batch_vars>>

\* The frame is exhausted: convert_tsv_to_yaml materializes the Document, with
\* total_shots = len(df).  It fails when build_project_structure raises.
BuildProject(no_camera_movement, no_shot_timecode) ==
    /\ pc = "fold"
    /\ build_options' = <<no_camera_movement, no_shot_timecode>>
    /\ IF BuildRaises(phases_dict, no_camera_movement, no_shot_timecode)
       THEN pc' = "failed" /\ project' = project
       ELSE /\ pc' = "built"
            /\ project' = build_project_structure(
                              initialize_project(ProjectTitle, Len(df)), phases_dict)
    /\ UNCHANGED <<side_vars, field_mappings, df, phases_dict, current_phase, current_scene,
                   normalizer_vars, batch_vars>>

\* build_project_structure applied once more to the same tree with the same
\* options, either to the Project it returned (reuse) or to a newly
\* initialized one.
Rebuild(reuse) ==
    /\ pc = "built"
    /\ pc' = "rebuilt"
    /\ project' = build_project_structure(
                      IF reuse THEN project
                      ELSE initialize_project(ProjectTitle, Len(df)),
                      phases_dict)
    /\ UNCHANGED <<side_vars, field_mappings, df, phases_dict, current_phase, current_scene,
                   build_options, normalizer_vars, batch_vars>>

(* ------------------------------ the batch ------------------------------ *)

\* The frames the sources of a batch hold: no rows; one row; a row followed by
\* a row whose Leaf number is no integer literal, on which the fold raises.
BatchFrames ==
    {<<>>,
     <<KeyRow(Str(<<"1">>), Str(<<"1">>), Str(<<"1">>))>>,
     <<KeyRow(Str(<<"1">>), Str(<<"1">>), Str(<<"1">>)), KeyRow(NaN, NaN, Str(<<"x">>))>>}

\* A converter just constructed, no source being converted.
InitBatch ==
    /\ field_mappings = NoMappings
    /\ df = <<>>
    /\ phases_dict = EmptyDict
    /\ current_phase = None
    /\ current_scene = None
    /\ project = None
    /\ build_options = <<>>
    /\ pc = "idle"
    /\ raw = None
    /\ field = ""
    /\ cleaned = None
    /\ NoBatch
    /\ NoSide

\* process_files up to its loop: n sources are found; with none it returns True.
ProcessFiles(n) ==
    /\ pc = "idle"
    /\ Len(returns) < MaxCalls
    /\ tsv_files' = [i \in 1..n |-> i]
    /\ file_idx' = 0
    /\ stats' = [stats EXCEPT !.total_files = n]
    /\ IF n = 0
       THEN pc' = "idle" /\ returns' = Append(returns, TRUE)
       ELSE pc' = "next" /\ returns' = returns
    /\ UNCHANGED <<side_vars, field_mappings, fold_vars, normalizer_vars, converted>>

\* What convert_tsv_to_yaml does with a source whose frame is tsv_df: "ok", or
\* the type of the exception it catches.  Reading raises when the process may
\* not read the source, the fold when a row raises, writing when the process
\* may not write the output.
ConvertOutcome(mappings, tsv_df, readable, writable) ==
    IF ~readable THEN "PermissionError"
    ELSE IF process_tsv_data(mappings, tsv_df).raised THEN "ValueError"
    ELSE IF BuildRaises(process_tsv_data(mappings, tsv_df).phases_dict, FALSE, FALSE)
    THEN "ValidationError"
    ELSE IF ~writable THEN "PermissionError"
    ELSE "ok"

\* One iteration of the loop of process_files in which a failed conversion
\* ends the batch.
ConvertFile_aborts(tsv_df, readable, writable) ==
    /\ pc = "next"
    /\ file_idx < Len(tsv_files)
    /\ LET tsv_file == tsv_files[file_idx + 1]
           outcome == ConvertOutcome(field_mappings, tsv_df, readable, writable)
       IN  /\ converted' = Append(converted, [call |-> Len(returns) + 1,
                                              file |-> tsv_file,
                                              success |-> outcome = "ok"])
           /\ IF outcome = "ok"
              THEN /\ stats' = [stats EXCEPT !.processed_files = @ + 1]
                   /\ file_idx' = file_idx + 1
                   /\ pc' = "next"
                   /\ returns' = returns
              ELSE /\ stats' = [stats EXCEPT
                                   !.errors = Append(@, [file |-> tsv_file, type |-> outcome]),
                                   !.failed_files = @ + 1]
                   /\ file_idx' = Len(tsv_files)
                   /\ pc' = "idle"
                   /\ returns' = Append(returns, FALSE)
    /\ UNCHANGED <<side_vars, field_mappings, fold_vars, normalizer_vars, tsv_files>>

\* One iteration of the loop of process_files: convert_tsv_to_yaml on the next
\* source.  A raise is caught in convert_tsv_to_yaml, which records the error
\* and returns False; the loop counts the source as processed or failed.
ConvertFile(tsv_df, readable, writable) ==
    /\ pc = "next"
    /\ file_idx < Len(tsv_files)
    /\ LET tsv_file == tsv_files[file_idx + 1]
           outcome == ConvertOutcome(field_mappings, tsv_df, readable, writable)
       IN  /\ converted' = Append(converted, [call |-> Len(returns) + 1,
                                              file |-> tsv_file,
                                              success |-> outcome = "ok"])
           /\ IF outcome = "ok"
              THEN stats' = [stats EXCEPT !.processed_files = @ + 1]
              ELSE stats' = [stats EXCEPT
                                !.errors = Append(@, [file |-> tsv_file, type |-> outcome]),
                                !.failed_files = @ + 1]
    /\ file_idx' = file_idx + 1
    /\ pc' = "next"
    /\ UNCHANGED <<side_vars, field_mappings, fold_vars, normalizer_vars, tsv_files, returns>>

\* The end of process_files returning True whatever failed.
FinishBatch_true ==
    /\ pc = "next"
    /\ file_idx = Len(tsv_files)
    /\ returns' = Append(returns, TRUE)
    /\ pc' = "idle"
    /\ UNCHANGED <<side_vars, field_mappings, fold_vars, normalizer_vars, tsv_files, file_idx,
                   stats, converted>>

\* The end of process_files, its loop done: it returns failed_files == 0.
FinishBatch ==
    /\ pc = "next"
    /\ file_idx = Len(tsv_files)
    /\ returns' = Append(returns, stats.failed_files = 0)
    /\ pc' = "idle"
    /\ UNCHANGED <<side_vars, field_mappings, fold_vars, normalizer_vars, tsv_files, file_idx,
                   stats, converted>>

NextBatch ==
    \/ \E n \in 0..MaxFiles : ProcessFiles(n)
    \/ \E tsv_df \in BatchFrames, readable \in BOOLEAN, writable \in BOOLEAN :
          ConvertFile(tsv_df, readable, writable)
    \/ FinishBatch

SpecBatch == InitBatch /\ [][NextBatch]_vars

(* ------------------- one processor, several sources -------------------- *)

\* A call of process_tsv_data on the next source, by the processor that folded
\* the sources before it.  current_phase and current_scene still hold what its
\* last fold left in them.  converted records, for each source folded, the
\* keys its fold ended with.
StartSource ==
    /\ pc \in {"idle", "built", "failed"}
    /\ file_idx < MaxFiles
    /\ file_idx' = file_idx + 1
    /\ converted' = IF file_idx = 0 THEN converted
                    ELSE Append(converted, [file |-> file_idx,
                                            keys |-> <<current_phase, current_scene>>])
    /\ LET st == start_fold([phases_dict |-> phases_dict,
                             current_phase |-> current_phase,
                             current_scene |-> current_scene, raised |-> FALSE])
       IN  /\ phases_dict' = st.phases_dict
           /\ current_phase' = st.current_phase
           /\ current_scene' = st.current_scene
    /\ df' = <<>>
    /\ project' = None
    /\ build_options' = <<>>
    /\ pc' = "fold"
    /\ UNCHANGED <<side_vars, field_mappings, normalizer_vars, tsv_files, stats, returns>>

\* Rows with a Leaf number: with both keys, with none, with a Group key alone,
\* and one with a Group key "1.0", on which the fold raises.
SourceRows ==
    {KeyRow(Str(<<"2">>), Str(<<"1">>), Str(<<"1">>)),
     KeyRow(NaN, NaN, Str(<<"1">>)),
     KeyRow(Str(<<"1">>), NaN, Str(<<"1">>)),
     KeyRow(Str(<<"1", ".", "0">>), Str(<<"1">>), Str(<<"1">>))}

NextSources ==
    \/ StartSource
    \/ \E row \in SourceRows : ProcessRow(row)
    \/ BuildProject(FALSE, FALSE)

SpecSources == InitBatch /\ [][NextSources]_vars

(* ------------------ the fold on rows of key cells ---------------------- *)

Txt1 == Str(<<"1">>)

Txt2 == Str(<<"2">>)

\* Group-key cells: empty, "1", "2".
PhaseCells == {NaN, Txt1, Txt2}

\* Subgroup-key cells: empty, "1", "2" and "x", which float() rejects.
SceneCells == {NaN, Txt1, Txt2, Str(<<"x">>)}

\* Rows with a Leaf number "1" and every combination of key cells.
ShotRows == {KeyRow(p, s, Txt1) : p \in PhaseCells, s \in SceneCells}

\* Rows without a Leaf number: an empty row, and a row of key cells whose
\* SHOT_NUM is a blank.
SeparatorRows == {BlankRow, KeyRow(Txt2, Txt2, Str(<<" ">>))}

\* Rows that make the fold raise when they reach int(): a Group key "1.0",
\* a Leaf number "x".
RaisingRows == {KeyRow(Str(<<"1", ".", "0">>), Txt1, Txt1), KeyRow(NaN, NaN, Str(<<"x">>))}

CarryRows == ShotRows \cup SeparatorRows \cup RaisingRows

Init == InitWith({NoMappings})

Next ==
    \/ \E row \in CarryRows : ProcessRow(row)
    \/ \E ncm \in BOOLEAN, nst \in BOOLEAN : BuildProject(ncm, nst)

Spec == Init /\ [][Next]_vars

(* ---------------- the fold on rows with descriptive cells -------------- *)

Txt(s) == Str(s)

\* The descriptive cells of a row: two filled profiles, an empty one, and one
\* whose PHASE_START is no integer literal.
ProfileCells(profile) ==
    CASE profile = "A" ->
            [BlankRow EXCEPT !["PHASE_START"] = Txt(<<"1", "8">>),
                             !["PHASE_END"] = Txt(<<"1", "9">>),
                             !["PERIOD"] = Txt(<<"M", "O", "D">>),
                             !["LOC_TYPE"] = Txt(<<"E", "X", "T">>),
                             !["LOCATION"] = Txt(<<"a", "_", "B">>),
                             !["WEATHER"] = Txt(<<"x">>)]
      [] profile = "B" ->
            [BlankRow EXCEPT !["PHASE_START"] = Txt(<<"2", "0">>),
                             !["SCENE_CONTEXT_COMMENT"] = Txt(<<"c">>),
                             !["PERIOD"] = Txt(<<"x">>),
                             !["SEASON"] = Txt(<<"a">>),
                             !["LOCATION"] = Txt(<<"B">>),
                             !["DIURNAL"] = Txt(<<"D">>),
                             !["LIGHT_SOURCE(S)"] = Txt(<<"l">>)]
      [] profile = "X" -> [BlankRow EXCEPT !["PHASE_START"] = Txt(<<"x">>)]
      [] OTHER -> BlankRow

\* A row with a Leaf number "1", the given key cells and descriptive cells.
MetaRow(phase, scene, profile) ==
    [ProfileCells(profile) EXCEPT !["PHASE_NUM"] = phase, !["SCENE_NUM"] = scene,
                                  !["SHOT_NUM"] = Txt1]

MetaRows ==
    {MetaRow(p, s, pr) : p \in PhaseCells, s \in {NaN, Txt1}, pr \in {"A", "B", "-"}}
        \cup {MetaRow(Txt1, Txt1, "X")}

InitMeta == InitWith({SomeMappings})

NextMeta ==
    \/ \E row \in MetaRows : ProcessRow(row)
    \/ \E ncm \in BOOLEAN, nst \in BOOLEAN : BuildProject(ncm, nst)

SpecMeta == InitMeta /\ [][NextMeta]_vars

(* ------------------- the fold on rows with Leaf cells ------------------- *)

\* The Leaf-level cells of a row: none; movement and timecode cells; a flag
\* "TRUE"; "TRUE" between blanks; "true"; "FALSE" with an angle.
LeafCells(profile) ==
    CASE profile = "M" ->
            [BlankRow EXCEPT !["MOVE_SPEED"] = Txt(<<"a", "_", "B">>),
                             !["IN"] = Txt(<<"0", "1">>),
                             !["OUT"] = Txt(<<"0", "2">>)]
      [] profile = "T" -> [BlankRow EXCEPT !["OREF"] = Txt(<<"T", "R", "U", "E">>)]
      [] profile = "P" ->
            [BlankRow EXCEPT !["OREF"] = Txt(<<" ", "T", "R", "U", "E", " ">>),
                             !["MOVE_TYPE"] = Txt(<<"p">>)]
      [] profile = "t" -> [BlankRow EXCEPT !["OREF"] = Txt(<<"t", "r", "u", "e">>)]
      [] profile = "F" ->
            [BlankRow EXCEPT !["OREF"] = Txt(<<"F", "A", "L", "S", "E">>),
                             !["ANGLE"] = Txt(<<"l">>)]
      [] OTHER -> BlankRow

\* A row with a Leaf number "1", the given key cells and Leaf cells.
LeafRow(phase, scene, profile) ==
    [LeafCells(profile) EXCEPT !["PHASE_NUM"] = phase, !["SCENE_NUM"] = scene,
                               !["SHOT_NUM"] = Txt1]

LeafRows ==
    {LeafRow(Txt1, Txt1, pr) : pr \in {"-", "M", "T", "P", "t", "F"}}
        \cup {LeafRow(Txt2, NaN, "M"), BlankRow}

InitLeaf == InitWith({NoMappings})

NextLeaf ==
    \/ \E row \in LeafRows : ProcessRow(row)
    \/ \E ncm \in BOOLEAN, nst \in BOOLEAN : BuildProject(ncm, nst)

SpecLeaf == InitLeaf /\ [][NextLeaf]_vars

\* The same, with the Document materialized a second time.
NextRebuild ==
    \/ \E row \in LeafRows : ProcessRow(row)
    \/ \E ncm \in BOOLEAN, nst \in BOOLEAN : BuildProject(ncm, nst)
    \/ \E reuse \in BOOLEAN : Rebuild(reuse)

SpecRebuild == InitLeaf /\ [][NextRebuild]_vars

(* ---------------- the fold on decimal Subgroup-key cells ---------------- *)

\* Subgroup-key cells: empty, "1", "2", and the decimals "2.0" and "2.7".
DecimalCells ==
    {NaN, Txt1, Txt2, Txt(<<"2", ".", "0">>), Txt(<<"2", ".", "7">>)}

\* Rows with a Leaf number "1", a Group key "1" or none, and a Subgroup key
\* among DecimalCells.
DecimalRows == {KeyRow(p, s, Txt1) : p \in {NaN, Txt1}, s \in DecimalCells}

InitDecimal == InitWith({NoMappings})

NextDecimal ==
    \/ \E row \in DecimalRows : ProcessRow(row)
    \/ \E ncm \in BOOLEAN, nst \in BOOLEAN : BuildProject(ncm, nst)

SpecDecimal == InitDecimal /\ [][NextDecimal]_vars

(* ------------ the fold on Subgroup keys with a fraction ---------------- *)

\* Subgroup-key cells: empty, "2", "2.0", and the fractions "2.7", "0.9" and
\* "-1.5".
TruncCells ==
    {NaN, Txt2, Txt(<<"2", ".", "0">>), Txt(<<"2", ".", "7">>),
     Txt(<<"0", ".", "9">>), Txt(<<"-", "1", ".", "5">>)}

\* Rows with a Leaf number "1", a Group key "1" or none, and a Subgroup key
\* among TruncCells.
TruncRows == {KeyRow(p, s, Txt1) : p \in {NaN, Txt1}, s \in TruncCells}

InitTrunc == InitWith({NoMappings})

NextTrunc ==
    \/ \E row \in TruncRows : ProcessRow(row)
    \/ \E ncm \in BOOLEAN, nst \in BOOLEAN : BuildProject(ncm, nst)

SpecTrunc == InitTrunc /\ [][NextTrunc]_vars

(* ------------- the fold on cells that int() does not accept ------------ *)

TxtX == Str(<<"x">>)

\* Rows with a Leaf number "1" or "x", a Group key "1" or none and a Subgroup
\* key "1", "x" or none; rows with the Group key "1.0"; and rows whose range
\* start or end is "x".
ParseRows ==
    {KeyRow(p, s, n) : p \in {NaN, Txt1}, s \in {NaN, Txt1, TxtX}, n \in {Txt1, TxtX}}
        \cup {KeyRow(Str(<<"1", ".", "0">>), Txt1, Txt1),
              KeyRow(Str(<<"1", ".", "0">>), TxtX, TxtX)}
        \cup {[KeyRow(Txt1, Txt1, Txt1) EXCEPT !["PHASE_START"] = TxtX],
              [KeyRow(Txt2, NaN, Txt1) EXCEPT !["PHASE_END"] = TxtX]}

InitParse == InitWith({NoMappings})

NextParse ==
    \/ \E row \in ParseRows : ProcessRow(row)
    \/ BuildProject(FALSE, FALSE)

SpecParse == InitParse /\ [][NextParse]_vars

(* -------------------------- the normalizer alone ----------------------- *)

CleanChars == {" ", "\t", BOM, ZWSP, "E"}

\* The strings over CleanChars of length at most MaxLen.
RawStrings == UNION {[1..n -> CleanChars] : n \in 0..MaxLen}

\* The values given to clean_value: the missing sentinel, None, the strings,
\* and a number.
RawValues == {NaN, None, Num(<<"7">>)} \cup {Str(s) : s \in RawStrings}

\* No column name, a column with a mapping table, a column without one.
FieldNames == {"", "LOC_TYPE", "IN"}

\* A table for LOC_TYPE; the label of "EE" is empty.
CleanMappings ==
    [c \in {"LOC_TYPE"} |->
        [x \in {<<"E">>, <<"E", "E">>} |-> IF x = <<"E">> THEN <<"E", "x", "t">> ELSE <<>>]]

InitClean ==
    /\ field_mappings \in {NoMappings, CleanMappings}
    /\ raw \in RawValues
    /\ field \in FieldNames
    /\ cleaned = None
    /\ pc = "clean"
    /\ df = <<>>
    /\ phases_dict = EmptyDict
    /\ current_phase = None
    /\ current_scene = None
    /\ project = None
    /\ build_options = <<>>
    /\ NoBatch
    /\ NoSide

\* A call clean_value(raw, field).
CleanValue ==
    /\ pc = "clean"
    /\ cleaned' = clean_value(field_mappings, raw, field)
    /\ pc' = "cleaned"
    /\ UNCHANGED <<side_vars, field_mappings, raw, field, fold_vars, batch_vars>>

NextClean == CleanValue

SpecClean == InitClean /\ [][NextClean]_vars

\* A call clean_value(cleaned, field): what the first call returned is cleaned
\* once more, under the same column.
CleanAgain ==
    /\ pc = "cleaned"
    /\ cleaned' = clean_value(field_mappings, cleaned, field)
    /\ pc' = "recleaned"
    /\ UNCHANGED <<side_vars, field_mappings, raw, field, fold_vars, batch_vars>>

NextReclean == CleanValue \/ CleanAgain

SpecReclean == InitClean /\ [][NextReclean]_vars

(* ------------------------------- the Config ---------------------------- *)

\* The conversion pipeline's variables, which the operations below leave alone.
pipeline_vars == <<field_mappings, fold_vars, normalizer_vars, batch_vars>>

\* Config(**data) validating its bounds exclusively (gt / lt for ge / le).
ConfigRaises_exclusive(data) ==
    \/ "yaml_indent" \in DOMAIN data
          /\ ~(data["yaml_indent"] > 1 /\ data["yaml_indent"] < 8)
    \/ "yaml_width" \in DOMAIN data
          /\ ~(data["yaml_width"] > 80 /\ data["yaml_width"] < 200)

\* Whether Config(**data) raises a validation error: a yaml_indent that is
\* given must satisfy ge=1, le=8, a yaml_width that is given ge=80, le=200.
ConfigRaises(data) ==
    \/ "yaml_indent" \in DOMAIN data
          /\ ~(data["yaml_indent"] >= 1 /\ data["yaml_indent"] <= 8)
    \/ "yaml_width" \in DOMAIN data
          /\ ~(data["yaml_width"] >= 80 /\ data["yaml_width"] <= 200)

\* The Config that Config(**data) constructs when it validates: a field that
\* is not given takes its default.
Config(data) ==
    [project_title |-> None,
     yaml_indent |-> IF "yaml_indent" \in DOMAIN data THEN data["yaml_indent"] ELSE 2,
     yaml_width |-> IF "yaml_width" \in DOMAIN data THEN data["yaml_width"] ELSE 120,
     mappings_file |-> "mappings.json"]

\* Values given for yaml_indent and yaml_width: below, at, within, at and
\* above the bounds of each.
IndentValues == {-1, 0, 1, 2, 5, 8, 9}

WidthValues == {0, 79, 80, 120, 200, 201, 1000}

\* The keyword arguments of a call of Config: none, either field, or both.
ConfigArguments ==
    {EmptyDict}
        \cup {[f \in {"yaml_indent"} |-> i] : i \in IndentValues}
        \cup {[f \in {"yaml_width"} |-> w] : w \in WidthValues}
        \cup {[f \in {"yaml_indent", "yaml_width"} |->
                  IF f = "yaml_indent" THEN i ELSE w] :
                     i \in IndentValues, w \in WidthValues}

\* The pipeline idle, nothing converted.
PipelineIdle ==
    /\ field_mappings = NoMappings
    /\ df = <<>>
    /\ phases_dict = EmptyDict
    /\ current_phase = None
    /\ current_scene = None
    /\ project = None
    /\ build_options = <<>>
    /\ raw = None
    /\ field = ""
    /\ cleaned = None
    /\ NoBatch

InitConfig ==
    /\ PipelineIdle
    /\ pc = "config"
    /\ config_data \in ConfigArguments
    /\ config = None
    /\ input_dir = <<>>
    /\ analysis_results = None
    /\ handler = NewHandler

\* A call Config(**config_data): it returns a Config or raises.
NewConfig ==
    /\ pc = "config"
    /\ IF ConfigRaises(config_data)
       THEN pc' = "config_error" /\ config' = None
       ELSE pc' = "configured" /\ config' = Config(config_data)
    /\ UNCHANGED <<pipeline_vars, config_data, analysis_vars, handler>>

NextConfig == NewConfig

SpecConfig == InitConfig /\ [][NextConfig]_vars

(* ----------------------------- analyze_files --------------------------- *)

\* The most entries under the input directory.
MaxEntries == 3

DotTsv == <<".", "t", "s", "v">>

\* What rglob('*') may yield: a directory; a file named .tsv or .TSV that
\* read_csv reads; a file named .tsv on which read_csv raises; a file with
\* another suffix.
DirEntries ==
    {[is_file |-> FALSE, suffix |-> <<>>, parses |-> FALSE],
     [is_file |-> TRUE, suffix |-> DotTsv, parses |-> TRUE],
     [is_file |-> TRUE, suffix |-> <<".", "T", "S", "V">>, parses |-> TRUE],
     [is_file |-> TRUE, suffix |-> DotTsv, parses |-> FALSE],
     [is_file |-> TRUE, suffix |-> <<".", "t", "x", "t">>, parses |-> FALSE]}

\* analysis_results as analyze_files initializes it.
NewAnalysis ==
    [files_found |-> <<>>, total_files |-> 0, valid_tsv_files |-> 0,
     invalid_files |-> <<>>, file_details |-> <<>>]

\* The body of the loop of analyze_files in which a file that is no TSV file
\* is counted and detailed but not listed as invalid.
analyze_entry_forgets_other(results, entry, path) ==
    IF ~entry.is_file THEN results
    ELSE IF Lower(entry.suffix) = DotTsv /\ entry.parses
    THEN [results EXCEPT
             !.total_files = @ + 1,
             !.valid_tsv_files = @ + 1,
             !.files_found = Append(@, path),
             !.file_details = Append(@, [path |-> path, is_valid_tsv |-> TRUE])]
    ELSE IF Lower(entry.suffix) = DotTsv
    THEN [results EXCEPT
             !.total_files = @ + 1,
             !.invalid_files = Append(@, [file |-> path, error |-> "read"]),
             !.file_details = Append(@, [path |-> path, is_valid_tsv |-> FALSE])]
    ELSE [results EXCEPT
             !.total_files = @ + 1,
             !.file_details = Append(@, [path |-> path, is_valid_tsv |-> FALSE])]

\* The body of the loop of analyze_files for one entry, path naming it: a
\* directory is passed over; a file is counted, classified by its lower-cased
\* suffix and by whether read_csv reads it, and detailed.
analyze_entry(results, entry, path) ==
    IF ~entry.is_file THEN results
    ELSE IF Lower(entry.suffix) = DotTsv /\ entry.parses
    THEN [results EXCEPT
             !.total_files = @ + 1,
             !.valid_tsv_files = @ + 1,
             !.files_found = Append(@, path),
             !.file_details = Append(@, [path |-> path, is_valid_tsv |-> TRUE])]
    ELSE [results EXCEPT
             !.total_files = @ + 1,
             !.invalid_files =
                 Append(@, [file |-> path,
                            error |-> IF Lower(entry.suffix) = DotTsv
                                      THEN "read" ELSE "Not a TSV file"]),
             !.file_details = Append(@, [path |-> path, is_valid_tsv |-> FALSE])]

RECURSIVE AnalyzeFrom(_, _, _)
\* The loop of analyze_files from the idx-th entry on.
AnalyzeFrom(results, entries, idx) ==
    IF idx > Len(entries) THEN results
    ELSE AnalyzeFrom(analyze_entry(results, entries[idx], idx), entries, idx + 1)

\* TSVToYAMLConverter.analyze_files on a directory holding entries.
analyze_files(entries) == AnalyzeFrom(NewAnalysis, entries, 1)

InitAnalyze ==
    /\ PipelineIdle
    /\ pc = "analyze"
    /\ input_dir \in UNION {[1..n -> DirEntries] : n \in 0..MaxEntries}
    /\ analysis_results = None
    /\ config_data = EmptyDict
    /\ config = None
    /\ handler = NewHandler

\* A call of analyze_files: the entries are read, none is written.
AnalyzeFiles ==
    /\ pc = "analyze"
    /\ analysis_results' = analyze_files(input_dir)
    /\ input_dir' = input_dir
    /\ pc' = "analyzed"
    /\ UNCHANGED <<pipeline_vars, config_vars, handler>>

NextAnalyze == AnalyzeFiles

SpecAnalyze == InitAnalyze /\ [][NextAnalyze]_vars

(* ---------------------------- the ErrorHandler -------------------------- *)

\* The most calls of log_error and log_success on one handler.
MaxLogs == 3

\* What datetime.now() returns (which instant is not modelled).
Timestamp == [k |-> "datetime", s |-> <<>>, n |-> 0]

InitHandler ==
    /\ PipelineIdle
    /\ pc = "handler"
    /\ NoSide

\* ErrorHandler.start_processing
StartProcessing ==
    /\ pc = "handler"
    /\ handler' = [handler EXCEPT !.stats.start_time = Timestamp, !.errors = <<>>]
    /\ UNCHANGED <<pipeline_vars, pc, config_vars, analysis_vars>>

\* ErrorHandler.end_processing
EndProcessing ==
    /\ pc = "handler"
    /\ handler' = [handler EXCEPT !.stats.end_time = Timestamp]
    /\ UNCHANGED <<pipeline_vars, pc, config_vars, analysis_vars>>

\* ErrorHandler.log_error(file_path, error, error_type); error is the name of
\* the exception's type, error_type = "" stands for None.
LogError(file_path, error, error_type) ==
    /\ pc = "handler"
    /\ handler.stats.processed_files + handler.stats.failed_files < MaxLogs
    /\ handler' = [handler EXCEPT
                      !.errors = Append(@, [file |-> file_path,
                                            type |-> IF error_type # "" THEN error_type
                                                     ELSE error]),
                      !.stats.failed_files = @ + 1]
    /\ UNCHANGED <<pipeline_vars, pc, config_vars, analysis_vars>>

\* ErrorHandler.log_success(file_path)
LogSuccess(file_path) ==
    /\ pc = "handler"
    /\ handler.stats.processed_files + handler.stats.failed_files < MaxLogs
    /\ handler' = [handler EXCEPT !.stats.processed_files = @ + 1]
    /\ UNCHANGED <<pipeline_vars, pc, config_vars, analysis_vars>>

\* ErrorHandler.has_errors
has_errors(h) == Len(h.errors) > 0

NextHandler ==
    \/ StartProcessing
    \/ EndProcessing
    \/ \E file_path \in 1..2, error_type \in {"", "ReadError"} :
          LogError(file_path, "ValueError", error_type)
    \/ \E file_path \in 1..2 : LogSuccess(file_path)

SpecHandler == InitHandler /\ [][NextHandler]_vars

(* --------------- reading the processed rows back (history) ------------ *)
(* What the properties below say about the rows in df is read from the raw  *)
(* cells, independently of the operators that model the program.            *)

\* A raw cell holds nothing: it is missing or blank.
CellAbsent(v) == v.k = "nan" \/ \A i \in 1..Len(v.s) : v.s[i] \in {" ", "\t"}

\* A raw cell is a plain integer literal, and the integer it denotes.
CellIsInt(v) == ~CellAbsent(v) /\ \A i \in 1..Len(v.s) : v.s[i] \in Digits

CellInt(v) == DecVal(v.s)

\* Row i of df has a Leaf sequence number (it passes the validity gate).
HasLeafNumber(i) == ~CellAbsent(df[i]["SHOT_NUM"])

\* Row i supplies a Group key / a Subgroup key that parses.
GivesGroup(i) == HasLeafNumber(i) /\ ~CellAbsent(df[i]["PHASE_NUM"])

GivesScene(i) == HasLeafNumber(i) /\ CellIsInt(df[i]["SCENE_NUM"])

\* Row i has a Subgroup key that is no number.
BadScene(i) ==
    HasLeafNumber(i) /\ ~CellAbsent(df[i]["SCENE_NUM"]) /\ ~CellIsInt(df[i]["SCENE_NUM"])

Latest(S) == IF S = {} THEN 0 ELSE CHOOSE x \in S : \A y \in S : y <= x

\* The latest row up to i (before i) that assigned a Group / Subgroup key; 0 if none.
LastGroupRow(i) == Latest({j \in 1..(i - 1) : GivesGroup(j)})

LastSceneRow(i) == Latest({j \in 1..(i - 1) : GivesScene(j)})

\* The row whose keys row i is filed under; 0 when the key is undetermined.
GroupRowOf(i) == IF GivesGroup(i) THEN i ELSE LastGroupRow(i)

SceneRowOf(i) == IF GivesScene(i) THEN i ELSE LastSceneRow(i)

\* Row i passes the validity gate, the Subgroup-key parse and the resolution gate.
Resolved(i) ==
    HasLeafNumber(i) /\ ~BadScene(i) /\ GroupRowOf(i) # 0 /\ SceneRowOf(i) # 0

\* The Leaves of the intermediate tree: Group key, Subgroup key, position in
\* the Subgroup's list, and the row each was built from.
Leaves ==
    UNION {UNION {{[g |-> g, s |-> s, at |-> k,
                    row |-> phases_dict[g].scenes[s].shots[k].src_row] :
                       k \in 1..Len(phases_dict[g].scenes[s].shots)} :
                  s \in DOMAIN phases_dict[g].scenes} :
           g \in DOMAIN phases_dict}

LeavesOfRow(i) == {l \in Leaves : l.row = i}

\* Row i is filed exactly once, under Group g and Subgroup s.
FiledUnder(i, g, s) ==
    /\ Cardinality(LeavesOfRow(i)) = 1
    /\ \A l \in LeavesOfRow(i) : l.g = g /\ l.s = s

(* ------------------------------ properties ----------------------------- *)

\* C1 (carry-forward): a processed row with a Leaf number and an absent Group
\* key (or an absent Subgroup key) is filed under the key most recently
\* assigned by an earlier row; if no earlier row assigned one, it adds no Leaf.
CarryForward ==
    pc # "failed" =>
        \A i \in 1..Len(df) :
            /\ (HasLeafNumber(i) /\ CellAbsent(df[i]["PHASE_NUM"])) =>
                  IF LastGroupRow(i) = 0 THEN LeavesOfRow(i) = {}
                  ELSE /\ \A l \in LeavesOfRow(i) :
                             l.g = CellInt(df[LastGroupRow(i)]["PHASE_NUM"])
                       /\ Resolved(i) => LeavesOfRow(i) # {}
            /\ (HasLeafNumber(i) /\ CellAbsent(df[i]["SCENE_NUM"])) =>
                  IF LastSceneRow(i) = 0 THEN LeavesOfRow(i) = {}
                  ELSE /\ \A l \in LeavesOfRow(i) :
                             l.s = CellInt(df[LastSceneRow(i)]["SCENE_NUM"])
                       /\ Resolved(i) => LeavesOfRow(i) # {}

\* C1 witness: a row without keys was dropped because none was carried yet, and
\* a later row without keys was filed under the keys of the row before it.
CarryForwardWitness ==
    /\ pc = "fold" /\ Len(df) = 3
    /\ df[1] = KeyRow(NaN, NaN, Txt1) /\ LeavesOfRow(1) = {}
    /\ df[2] = KeyRow(Txt2, Txt1, Txt1)
    /\ df[3] = KeyRow(NaN, NaN, Txt1) /\ FiledUnder(3, 2, 1)

\* The Leaves of the Document: position of the Group, of the Subgroup in it,
\* of the Leaf in it, with their keys and the row each was built from.
DocLeaves ==
    UNION {UNION {{[gi |-> gi, si |-> si, at |-> k,
                    g |-> project.phases[gi].phase_number,
                    s |-> project.phases[gi].scenes[si].scene_number,
                    row |-> project.phases[gi].scenes[si].shots[k].src_row] :
                       k \in 1..Len(project.phases[gi].scenes[si].shots)} :
                  si \in 1..Len(project.phases[gi].scenes)} :
           gi \in 1..Len(project.phases)}

\* C3 (ordering): the Document lists the Groups of the tree in strictly
\* ascending key order, the Subgroups of each Group in strictly ascending key
\* order, and the Leaves of each Subgroup in row-arrival order.
Ordering ==
    pc = "built" =>
        /\ \A i \in 1..(Len(project.phases) - 1) :
              project.phases[i].phase_number < project.phases[i + 1].phase_number
        /\ {project.phases[i].phase_number : i \in 1..Len(project.phases)}
              = DOMAIN phases_dict
        /\ \A i \in 1..Len(project.phases) :
              LET phase == project.phases[i] IN
              /\ \A j \in 1..(Len(phase.scenes) - 1) :
                    phase.scenes[j].scene_number < phase.scenes[j + 1].scene_number
              /\ {phase.scenes[j].scene_number : j \in 1..Len(phase.scenes)}
                    = DOMAIN phases_dict[phase.phase_number].scenes
              /\ \A j \in 1..Len(phase.scenes) :
                    \A k \in 1..(Len(phase.scenes[j].shots) - 1) :
                        phase.scenes[j].shots[k].src_row
                            < phase.scenes[j].shots[k + 1].src_row
        /\ {[g |-> l.g, s |-> l.s, at |-> l.at, row |-> l.row] : l \in DocLeaves} = Leaves

\* C3 witness: Group 2 arrived before Group 1 and, in Group 1, Subgroup 2 before
\* Subgroup 1; the Document lists Group 1 first and its Subgroup 1 first.
OrderingWitness ==
    /\ pc = "built" /\ Len(df) = 3
    /\ df[1] = KeyRow(Txt2, Txt2, Txt1)
    /\ df[2] = KeyRow(Txt1, Txt2, Txt1)
    /\ df[3] = KeyRow(NaN, Txt1, Txt1)
    /\ Len(project.phases) = 2
    /\ project.phases[1].phase_number = 1
    /\ Len(project.phases[1].scenes) = 2
    /\ project.phases[1].scenes[1].scene_number = 1

\* C5 (one Leaf per row): every row that passes the validity gate, the
\* Subgroup-key parse and the resolution gate has exactly one Leaf in the tree,
\* no other row has one, and the tree (and the Document) hold as many Leaves
\* as there are such rows, whatever their Leaf numbers.
OneLeafPerRow ==
    pc # "failed" =>
        /\ \A i \in 1..Len(df) :
              IF Resolved(i) THEN Cardinality(LeavesOfRow(i)) = 1
              ELSE LeavesOfRow(i) = {}
        /\ \A l \in Leaves : l.row \in 1..Len(df)
        /\ Cardinality(Leaves) = Cardinality({i \in 1..Len(df) : Resolved(i)})
        /\ pc = "built" => Cardinality(DocLeaves) = Cardinality(Leaves)

\* C5 witness: MaxRows rows with the same keys and the same Leaf number give
\* one Group, one Subgroup and MaxRows Leaves.
OneLeafPerRowWitness ==
    /\ pc = "built" /\ Len(df) = MaxRows
    /\ \A i \in 1..Len(df) : df[i] = KeyRow(Txt1, Txt1, Txt1)
    /\ Len(project.phases) = 1
    /\ Len(project.phases[1].scenes) = 1
    /\ Len(project.phases[1].scenes[1].shots) = MaxRows
    /\ \A k \in 1..MaxRows : project.phases[1].scenes[1].shots[k].shot_number = 1

\* C6 (resolution gate): while a carried key is unset the tree is empty, and
\* every Leaf of the tree lies under the Group key and the Subgroup key that
\* the rows up to its own determine.
ResolutionGate ==
    /\ (current_phase = None \/ current_scene = None) => phases_dict = EmptyDict
    /\ \A l \in Leaves :
          /\ GroupRowOf(l.row) # 0 /\ SceneRowOf(l.row) # 0
          /\ l.g = CellInt(df[GroupRowOf(l.row)]["PHASE_NUM"])
          /\ l.s = CellInt(df[SceneRowOf(l.row)]["SCENE_NUM"])

\* C6 witness: a row with Group 2 and no Subgroup, none carried, was dropped.
ResolutionGateWitness ==
    /\ pc = "fold" /\ Len(df) = 1
    /\ df[1] = KeyRow(Txt2, NaN, Txt1)
    /\ current_phase = Int_(2) /\ current_scene = None
    /\ phases_dict = EmptyDict

\* C7 (validity gate): a step that processes a row without a Leaf number
\* changes neither the tree nor the carried keys.
ValidityGate ==
    [][(pc = "fold" /\ Len(df') = Len(df) + 1
           /\ CellAbsent(df'[Len(df')]["SHOT_NUM"]))
        => (phases_dict' = phases_dict /\ current_phase' = current_phase
              /\ current_scene' = current_scene /\ pc' = "fold")]_vars

\* C7 witness: a row with keys 2/2 and a blank Leaf number was processed while
\* keys 1/1 were carried, and they still are.
ValidityGateWitness ==
    /\ pc = "fold" /\ Len(df) = 2
    /\ df[1] = KeyRow(Txt1, Txt1, Txt1)
    /\ df[2] = KeyRow(Txt2, Txt2, Str(<<" ">>))
    /\ current_phase = Int_(1) /\ current_scene = Int_(1)
    /\ DOMAIN phases_dict = {1}

NewGroupKeepsScene ==
    pc # "failed" =>
        \A i \in 1..Len(df) :
            (HasLeafNumber(i) /\ CellIsInt(df[i]["PHASE_NUM"])
                /\ CellAbsent(df[i]["SCENE_NUM"]) /\ LastSceneRow(i) # 0)
            => FiledUnder(i, CellInt(df[i]["PHASE_NUM"]),
                          CellInt(df[LastSceneRow(i)]["SCENE_NUM"]))

\* C9 witness: Subgroup 2 was set by a row of Group 1; the next row names
\* Group 2 alone and is filed under Group 2 / Subgroup 2, which it created.
NewGroupKeepsSceneWitness ==
    /\ pc = "fold" /\ Len(df) = 2
    /\ df[1] = KeyRow(Txt1, Txt2, Txt1)
    /\ df[2] = KeyRow(Txt2, NaN, Txt1)
    /\ FiledUnder(2, 2, 2)
    /\ DOMAIN phases_dict[2].scenes = {2}
    /\ DOMAIN phases_dict[1].scenes = {2}

\* What the descriptive cells of a row give a Group and a Subgroup that the
\* row creates, profile by profile, under the tables of SomeMappings.
ProfileOf(row) ==
    CASE row["PHASE_START"] = Txt(<<"1", "8">>) -> "A"
      [] row["PHASE_START"] = Txt(<<"2", "0">>) -> "B"
      [] row["PHASE_START"] = Txt(<<"x">>) -> "X"
      [] OTHER -> "-"

ExpectedTimePeriod(row) ==
    CASE ProfileOf(row) = "A" -> [start |-> Int_(18), end |-> Int_(19)]
      [] ProfileOf(row) = "B" -> [start |-> Int_(20), end |-> None]
      [] OTHER -> [start |-> None, end |-> None]

ExpectedSceneMeta(row) ==
    CASE ProfileOf(row) = "A" ->
            [comment |-> None, period |-> Txt(<<"M", "o", "d">>), season |-> None,
             weather |-> Txt(<<"X">>),
             location |-> [type |-> Txt(<<"E", "x", "t">>),
                           location_name |-> Txt(<<"A", " ", "b">>)],
             diurnal |-> None, light_source |-> None]
      [] ProfileOf(row) = "B" ->
            [comment |-> Txt(<<"c">>), period |-> Txt(<<"X">>),
             season |-> Txt(<<"A">>), weather |-> None,
             location |-> [type |-> None, location_name |-> Txt(<<"B">>)],
             diurnal |-> Txt(<<"D">>), light_source |-> Txt(<<"l">>)]
      [] OTHER ->
            [comment |-> None, period |-> None, season |-> None, weather |-> None,
             location |-> [type |-> None, location_name |-> None],
             diurnal |-> None, light_source |-> None]

\* The descriptive metadata of a Subgroup entry (of the tree or the Document).
SceneMeta(scene) ==
    [comment |-> scene.comment, period |-> scene.period, season |-> scene.season,
     weather |-> scene.weather, location |-> scene.location,
     diurnal |-> scene.diurnal, light_source |-> scene.light_source]

Earliest(S) == CHOOSE x \in S : \A y \in S : x <= y

\* The first row filed under Group g / under Subgroup s of Group g.
FirstRowOfGroup(g) == Earliest({l.row : l \in {m \in Leaves : m.g = g}})

FirstRowOfScene(g, s) == Earliest({l.row : l \in {m \in Leaves : m.g = g /\ m.s = s}})

\* C2 (first-writer-wins): the time period of every Group and the descriptive
\* metadata of every Subgroup, in the tree and in the Document, are those of
\* the first row filed under that key, whatever later rows of the key carry.
FirstWriterWins ==
    pc # "failed" =>
        /\ \A g \in DOMAIN phases_dict :
              /\ phases_dict[g].time_period = ExpectedTimePeriod(df[FirstRowOfGroup(g)])
              /\ \A s \in DOMAIN phases_dict[g].scenes :
                    SceneMeta(phases_dict[g].scenes[s])
                        = ExpectedSceneMeta(df[FirstRowOfScene(g, s)])
        /\ pc = "built" =>
              \A i \in 1..Len(project.phases) :
                  LET phase == project.phases[i] IN
                  /\ phase.time_period
                        = ExpectedTimePeriod(df[FirstRowOfGroup(phase.phase_number)])
                  /\ \A j \in 1..Len(phase.scenes) :
                        SceneMeta(phase.scenes[j])
                            = ExpectedSceneMeta(
                                  df[FirstRowOfScene(phase.phase_number,
                                                     phase.scenes[j].scene_number)])

\* C2 witness: Group 1 / Subgroup 1 was introduced by a row of profile A and
\* then named again by a row of profile B; the Document carries A's metadata.
FirstWriterWinsWitness ==
    /\ pc = "built" /\ Len(df) = 2
    /\ df[1] = MetaRow(Txt1, Txt1, "A")
    /\ df[2] = MetaRow(Txt1, Txt1, "B")
    /\ Len(project.phases) = 1
    /\ project.phases[1].time_period = [start |-> Int_(18), end |-> Int_(19)]
    /\ project.phases[1].scenes[1].period = Txt(<<"M", "o", "d">>)
    /\ Len(project.phases[1].scenes[1].shots) = 2

\* C4 (total_shots): the Document's total_shots is the number of rows that
\* have a Leaf sequence number.
TotalShotsCountsLeafRows ==
    pc = "built" =>
        project.total_shots = Cardinality({i \in 1..Len(df) : HasLeafNumber(i)})

\* C10 (absence): clean_value returns None for the missing sentinel (NaN, None), the empty
\* string and every whitespace-only string, with or without a column name.
AbsentIsNone ==
    (pc = "cleaned"
        /\ \/ raw.k \in {"nan", "none"}
           \/ raw.k = "str" /\ \A i \in 1..Len(raw.s) : raw.s[i] \in {" ", "\t"})
    => cleaned = None

\* C10 witness: a string of a blank and a tab, cleaned under a column that has
\* a mapping table, gave None.
AbsentIsNoneWitness ==
    /\ pc = "cleaned"
    /\ raw = Str(<<" ", "\t">>)
    /\ field = "LOC_TYPE"
    /\ field_mappings = CleanMappings
    /\ cleaned = None

(* ----------------- the Document as given to the serializer ------------- *)

\* The Leaves of the serializer's tree, each with the Leaf of the Document it
\* was dumped from.
DumpedLeaves ==
    UNION {UNION {{[leaf |-> model_dump(project).phases[gi].scenes[si].shots[k],
                    shot |-> project.phases[gi].scenes[si].shots[k]] :
                       k \in 1..Len(project.phases[gi].scenes[si].shots)} :
                  si \in 1..Len(project.phases[gi].scenes)} :
           gi \in 1..Len(project.phases)}

\* An attribute value that should never be serialized: null, "" or {}.
Placeholder(block, attr) ==
    \/ block[attr] = None
    \/ block[attr] = Str(<<>>)
    \/ block[attr] = EmptyDict

\* C11 (absent attributes are left out): in the tree given to the serializer
\* no attribute of a Group, a Subgroup or a Leaf, and no attribute of their
\* nested blocks, is null, an empty string or an empty block.
NoPlaceholderInOutput ==
    pc = "built" =>
        \A gi \in 1..Len(project.phases) :
            LET group == model_dump(project).phases[gi] IN
            /\ ~Placeholder(group, "time_period")
            /\ \A a \in DOMAIN group.time_period : ~Placeholder(group.time_period, a)
            /\ \A si \in 1..Len(group.scenes) :
                  LET subgroup == group.scenes[si] IN
                  /\ \A a \in DOMAIN subgroup \ {"scene_number", "shots"} :
                        ~Placeholder(subgroup, a)
                  /\ \A a \in DOMAIN subgroup.location :
                        ~Placeholder(subgroup.location, a)
                  /\ \A k \in 1..Len(subgroup.shots) :
                        LET leaf == subgroup.shots[k] IN
                        /\ \A a \in DOMAIN leaf \ {"shot_number"} : ~Placeholder(leaf, a)
                        /\ \A a \in DOMAIN leaf.camera_movement :
                              ~Placeholder(leaf.camera_movement, a)
                        /\ \A a \in DOMAIN leaf.shot_timecode :
                              ~Placeholder(leaf.shot_timecode, a)

\* C12 (field-inclusion toggles): whenever build_project_structure was called
\* with a toggle set, there is a Document, it holds every Leaf of the tree, and
\* no Leaf of the serializer's tree has the excluded block; a block that was
\* not excluded is kept.
TogglesOmitBlocks ==
    (build_options # <<>> /\ (build_options[1] \/ build_options[2])) =>
        /\ pc = "built"
        /\ Cardinality(DocLeaves) = Cardinality(Leaves)
        /\ \A d \in DumpedLeaves :
              /\ ("camera_movement" \in DOMAIN d.leaf) <=> ~build_options[1]
              /\ ("shot_timecode" \in DOMAIN d.leaf) <=> ~build_options[2]

\* The flag cell of a row reads "TRUE": the four letters, exactly, once the
\* blanks around them are trimmed.
FlagIsTrue(row) ==
    /\ row["OREF"].k = "str"
    /\ \E pre \in {<<>>, <<" ">>}, post \in {<<>>, <<" ">>} :
          row["OREF"].s = pre \o <<"T", "R", "U", "E">> \o post

Trimmed(s) ==
    LET inked == {i \in 1..Len(s) : s[i] \notin {" ", "\t"}}
    IN  IF inked = {} THEN <<>>
        ELSE SubSeq(s, CHOOSE i \in inked : \A j \in inked : i <= j,
                       CHOOSE i \in inked : \A j \in inked : j <= i)

IsInk(c) == c \notin {BOM, ZWSP}

\* Rule 2 applied to s: trimmed, then every BOM and ZWSP taken out.
Hygienic(s) == SelectSeq(Trimmed(s), IsInk)

\* The column of the call has a table with an entry for the string s.
HasEntry(s) ==
    field # "" /\ field \in DOMAIN field_mappings /\ s \in DOMAIN field_mappings[field]

\* C14 (substitution): for a string that Rule 2 leaves non-empty, clean_value
\* returns the label of the cleaned string when the column's table has an
\* entry for it, and the cleaned string itself otherwise.
Substitution ==
    (pc = "cleaned" /\ raw.k = "str" /\ Hygienic(raw.s) # <<>>) =>
        IF HasEntry(Hygienic(raw.s))
        THEN cleaned = Str(field_mappings[field][Hygienic(raw.s)])
        ELSE cleaned = Str(Hygienic(raw.s))

\* C15 (string hygiene): for a string, clean_value returns None when trimming
\* and then removing every BOM and ZWSP leaves nothing; otherwise, when no
\* table entry applies, it returns exactly what is left, which holds no BOM
\* and no ZWSP.
StringHygiene ==
    (pc = "cleaned" /\ raw.k = "str") =>
        IF Hygienic(raw.s) = <<>> THEN cleaned = None
        ELSE ~HasEntry(Hygienic(raw.s)) =>
                /\ cleaned = Str(Hygienic(raw.s))
                /\ \A i \in 1..Len(cleaned.s) : cleaned.s[i] \notin {BOM, ZWSP}

\* C15 witness: a blank, a BOM and an "E", cleaned under a column without a
\* table, gave "E".
StringHygieneWitness ==
    /\ pc = "cleaned"
    /\ raw = Str(<<" ", BOM, "E">>) /\ cleaned = Str(<<"E">>)
    /\ field = "IN" /\ field_mappings = CleanMappings

(* ------------------------ decimal Subgroup keys ------------------------- *)

\* Where the digits of s end: the position of its first character that is no
\* digit, Len(s) + 1 when it has none.
DigitsEnd(s) ==
    LET others == {i \in 1..Len(s) : s[i] \notin Digits}
    IN  IF others = {} THEN Len(s) + 1 ELSE CHOOSE i \in others : \A j \in others : i <= j

\* The cell is a decimal representation of an integer: digits, optionally
\* followed by a point and zeros; and the integer it represents.
IsWholeDecimal(v) ==
    /\ v.k = "str"
    /\ DigitsEnd(v.s) > 1
    /\ DigitsEnd(v.s) <= Len(v.s) =>
          /\ v.s[DigitsEnd(v.s)] = "."
          /\ \A i \in (DigitsEnd(v.s) + 1)..Len(v.s) : v.s[i] = "0"

WholeValue(v) == DecVal(SubSeq(v.s, 1, DigitsEnd(v.s) - 1))

\* C16 (decimal Subgroup key): a row with a Leaf number whose Subgroup-key
\* cell is a decimal representation of an integer n ("2" or "2.0"), and whose
\* Group key g is given or carried, is filed under Subgroup n of Group g; so
\* rows with "2.0" and rows with "2" in one Group share its Subgroup 2.
DecimalSceneKey ==
    pc # "failed" =>
        \A i \in 1..Len(df) :
            (HasLeafNumber(i) /\ IsWholeDecimal(df[i]["SCENE_NUM"]) /\ GroupRowOf(i) # 0)
            => FiledUnder(i, CellInt(df[GroupRowOf(i)]["PHASE_NUM"]),
                          WholeValue(df[i]["SCENE_NUM"]))

\* C16 witness: a row with Subgroup "2" and a row with Subgroup "2.0", both of
\* Group 1, gave one Subgroup, 2, with two Leaves.
DecimalSceneKeyWitness ==
    /\ pc = "built" /\ Len(df) = 2
    /\ df[1] = KeyRow(Txt1, Txt2, Txt1)
    /\ df[2] = KeyRow(NaN, Txt(<<"2", ".", "0">>), Txt1)
    /\ DOMAIN phases_dict[1].scenes = {2}
    /\ Len(project.phases[1].scenes) = 1
    /\ project.phases[1].scenes[1].scene_number = 2
    /\ Len(project.phases[1].scenes[1].shots) = 2

(* --------------------------- materializing twice ------------------------ *)

\* C17 (idempotence of materialization): applying build_project_structure a
\* second time to the same tree with the same options gives a Document with
\* the same Groups, Subgroups and Leaves in the same order as the first.
MaterializeTwice ==
    [][(pc = "built" /\ pc' = "rebuilt") => project' = project]_vars

(* ------------------------------- the batch ------------------------------ *)

\* The call of process_files that is running or, when none is, ran last.
ThisCall == IF pc = "next" THEN Len(returns) + 1 ELSE Len(returns)

\* The conversions of call c, in the order they were made.
ConversionsOf(c) ==
    LET InCall(x) == x.call = c IN SelectSeq(converted, InCall)

\* The failed conversions, in the order they were made.
FailedConversions ==
    LET Failed(x) == ~x.success IN SelectSeq(converted, Failed)

\* C18 (partial failure): the sources of a call are converted one by one in
\* the order found, each once, whatever the conversions before it did; when
\* the call returns, every source found has been converted; and every failed
\* conversion has left exactly one error entry, with its file and the type of
\* what was raised.
BatchContinues ==
    /\ ThisCall > 0 =>
          /\ Len(ConversionsOf(ThisCall)) = file_idx
          /\ \A i \in 1..file_idx : ConversionsOf(ThisCall)[i].file = tsv_files[i]
          /\ pc = "idle" => file_idx = Len(tsv_files)
    /\ Len(stats.errors) = Len(FailedConversions)
    /\ \A i \in 1..Len(stats.errors) :
          /\ stats.errors[i].file = FailedConversions[i].file
          /\ stats.errors[i].type \in {"PermissionError", "ValueError"}

\* C18 witness: a call that found two sources has returned; the first
\* conversion failed in the fold, the second succeeded.
BatchContinuesWitness ==
    /\ pc = "idle" /\ Len(returns) = 1
    /\ Len(tsv_files) = 2
    /\ converted = <<[call |-> 1, file |-> 1, success |-> FALSE],
                     [call |-> 1, file |-> 2, success |-> TRUE]>>
    /\ stats.errors = <<[file |-> 1, type |-> "ValueError"]>>

\* C19 (summary counts): when the first call of process_files on a converter
\* has returned, total_files is the number of sources found, processed_files
\* and failed_files count the conversions that succeeded and that failed and
\* add up to total_files, and the call returned True exactly when none failed.
BatchCounts ==
    (pc = "idle" /\ Len(returns) = 1) =>
        /\ stats.total_files = Len(tsv_files)
        /\ stats.processed_files + stats.failed_files = stats.total_files
        /\ stats.failed_files = Len(FailedConversions)
        /\ stats.processed_files = Len(converted) - Len(FailedConversions)
        /\ returns[1] <=> (stats.failed_files = 0)
        /\ returns[1] <=> (FailedConversions = <<>>)

\* C19 witness: the first call found two sources and returned False: one was
\* processed, one failed.
BatchCountsWitness ==
    /\ pc = "idle" /\ returns = <<FALSE>>
    /\ stats.total_files = 2
    /\ stats.processed_files = 1
    /\ stats.failed_files = 1

(* ------------------------ isolation between sources -------------------- *)

\* C20 (state isolation): a fold starts with an empty tree and both keys
\* unset, whatever the processor folded before; the tree and the keys of a
\* source are those its own rows give a new processor, and every Leaf lies
\* under keys that rows of its own source supplied.
SourceIsolation ==
    /\ (pc = "fold" /\ df = <<>>) =>
          phases_dict = EmptyDict /\ current_phase = None /\ current_scene = None
    /\ pc = "failed" <=> process_tsv_data(field_mappings, df).raised
    /\ pc \in {"fold", "built"} =>
          /\ phases_dict = process_tsv_data(field_mappings, df).phases_dict
          /\ current_phase = process_tsv_data(field_mappings, df).current_phase
          /\ current_scene = process_tsv_data(field_mappings, df).current_scene
          /\ \A l \in Leaves :
                /\ GroupRowOf(l.row) # 0 /\ SceneRowOf(l.row) # 0
                /\ l.g = CellInt(df[GroupRowOf(l.row)]["PHASE_NUM"])
                /\ l.s = CellInt(df[SceneRowOf(l.row)]["SCENE_NUM"])

\* C20 witness: the first source left the keys 2 / 1; the second source begins
\* with a row without keys, which was dropped: its tree is empty and its keys
\* are unset.
SourceIsolationWitness ==
    /\ pc = "fold" /\ file_idx = 2
    /\ converted = <<[file |-> 1, keys |-> <<Int_(2), Int_(1)>>]>>
    /\ df = <<KeyRow(NaN, NaN, Txt1)>>
    /\ phases_dict = EmptyDict
    /\ current_phase = None /\ current_scene = None

(* --------------------------- no empty containers ------------------------ *)

\* C21 (no empty containers): after every row of the fold, every Group of the
\* tree owns at least one Subgroup and every Subgroup at least one Leaf, and
\* so do the Groups and Subgroups of the Document.
NoEmptyContainers ==
    /\ \A g \in DOMAIN phases_dict :
          /\ DOMAIN phases_dict[g].scenes # {}
          /\ \A s \in DOMAIN phases_dict[g].scenes : phases_dict[g].scenes[s].shots # <<>>
    /\ pc = "built" =>
          \A gi \in 1..Len(project.phases) :
              /\ project.phases[gi].scenes # <<>>
              /\ \A si \in 1..Len(project.phases[gi].scenes) :
                    project.phases[gi].scenes[si].shots # <<>>

\* C21 witness: three rows each created a container (Group 1 with Subgroup 1,
\* Subgroup 2 of Group 1, Group 2 with Subgroup 2), and the Document has two
\* Groups and three Subgroups of one Leaf each.
NoEmptyContainersWitness ==
    /\ pc = "built" /\ Len(df) = 3
    /\ df[1] = KeyRow(Txt1, Txt1, Txt1)
    /\ df[2] = KeyRow(NaN, Txt2, Txt1)
    /\ df[3] = KeyRow(Txt2, NaN, Txt1)
    /\ Len(project.phases) = 2
    /\ Len(project.phases[1].scenes) = 2
    /\ Len(project.phases[2].scenes) = 1
    /\ \A l \in DocLeaves : l.at = 1
    /\ Cardinality(DocLeaves) = 3

(* ------------------------------- the Config ----------------------------- *)

\* The value a call of Config asks for a field: the one given, else the default.
Asked(name, default) ==
    IF name \in DOMAIN config_data THEN config_data[name] ELSE default

\* C22 (Config validation): a call of Config gives a Config if and only if
\* 1 <= yaml_indent <= 8 and 80 <= yaml_width <= 200, the defaults being 2 and
\* 120; the Config holds the values asked for; otherwise the call raises and
\* there is no Config.
ConfigValidation ==
    pc \in {"configured", "config_error"} =>
        LET InRange == /\ Asked("yaml_indent", 2) \in 1..8
                       /\ Asked("yaml_width", 120) \in 80..200
        IN  /\ pc = "configured" <=> InRange
            /\ config # None <=> InRange
            /\ InRange => /\ config.yaml_indent = Asked("yaml_indent", 2)
                          /\ config.yaml_width = Asked("yaml_width", 120)

\* C22 witness: yaml_indent = 8 alone gave a Config of width 120, at the
\* upper bound of the indent.
ConfigValidationWitness ==
    /\ pc = "configured"
    /\ config_data = [f \in {"yaml_indent"} |-> 8]
    /\ config # None
    /\ config.yaml_indent = 8 /\ config.yaml_width = 120

(* ----------------------------- analyze_files ---------------------------- *)

\* The entries under the input directory that are files.
FilesUnder == {i \in 1..Len(input_dir) : input_dir[i].is_file}

\* How many elements of the list seq satisfy Test.
Count(seq, Test(_)) == Cardinality({k \in 1..Len(seq) : Test(seq[k])})

\* What analyze_files returned counts and classifies every file once.
ClassifiedOnce ==
    pc = "analyzed" =>
        LET r == analysis_results IN
        /\ r.total_files = r.valid_tsv_files + Len(r.invalid_files)
        /\ r.total_files = Len(r.file_details)
        /\ Len(r.files_found) = r.valid_tsv_files
        /\ r.total_files = Cardinality(FilesUnder)
        /\ \A i \in 1..Len(input_dir) :
              LET Detailed(d) == d.path = i
                  Found(f) == f = i
                  Invalid(e) == e.file = i
                  times == IF i \in FilesUnder THEN 1 ELSE 0
              IN  /\ Count(r.file_details, Detailed) = times
                  /\ Count(r.files_found, Found) + Count(r.invalid_files, Invalid) = times

\* C23 (analysis): analyze_files classifies every file under the input
\* directory exactly once (as a valid TSV file or as an invalid file); on
\* return total_files = valid_tsv_files + len(invalid_files) =
\* len(file_details) and len(files_found) = valid_tsv_files; and no step
\* changes an entry of the directory.
AnalysisClassifies == []ClassifiedOnce /\ [][input_dir' = input_dir]_vars

\* C23 witness: a directory, a readable file named .TSV and a file named .txt
\* were analyzed: two files, one valid, one invalid.
AnalysisClassifiesWitness ==
    /\ pc = "analyzed"
    /\ Len(input_dir) = 3
    /\ ~input_dir[1].is_file
    /\ input_dir[2] = [is_file |-> TRUE, suffix |-> <<".", "T", "S", "V">>, parses |-> TRUE]
    /\ input_dir[3] = [is_file |-> TRUE, suffix |-> <<".", "t", "x", "t">>, parses |-> FALSE]
    /\ analysis_results.total_files = 2
    /\ analysis_results.files_found = <<2>>
    /\ Len(analysis_results.invalid_files) = 1

(* ----------------------- dropped rows and the keys ---------------------- *)

\* C24 (dropped rows move the keys): a step that processes a row with a Leaf
\* number and files nothing (the row is dropped at the Subgroup-key parse or
\* at the resolution gate) has set the carried Group key to the row's Group
\* key when it gives one, and the carried Subgroup key to the row's Subgroup
\* key when it gives one that parses; a key the row does not give is kept.
DroppedRowsMoveKeys ==
    [][(pc = "fold" /\ pc' = "fold" /\ Len(df') = Len(df) + 1
           /\ ~CellAbsent(df'[Len(df')]["SHOT_NUM"])
           /\ phases_dict' = phases_dict)
        => LET row == df'[Len(df')] IN
           /\ current_phase' = IF CellAbsent(row["PHASE_NUM"]) THEN current_phase
                                ELSE Int_(CellInt(row["PHASE_NUM"]))
           /\ current_scene' = IF CellIsInt(row["SCENE_NUM"])
                                THEN Int_(CellInt(row["SCENE_NUM"]))
                                ELSE current_scene]_vars

\* C24 witness: a row with Group 2 and no Subgroup, none being carried, was
\* dropped; the next row, with Subgroup 1 alone, is filed under Group 2 /
\* Subgroup 1.
DroppedRowsMoveKeysWitness ==
    /\ pc = "fold" /\ Len(df) = 2
    /\ df[1] = KeyRow(Txt2, NaN, Txt1) /\ LeavesOfRow(1) = {}
    /\ df[2] = KeyRow(NaN, Txt1, Txt1) /\ FiledUnder(2, 2, 1)
    /\ DOMAIN phases_dict = {2}

(* -------------------------- cells int() rejects ------------------------- *)

\* A cell that is given but is no integer literal.
NotInt(v) == ~CellAbsent(v) /\ ~CellIsInt(v)

\* The row passes the Subgroup-key parse and, with the keys carried so far,
\* the resolution gate.
PassesGates(row) ==
    /\ ~NotInt(row["PHASE_NUM"]) /\ ~NotInt(row["SCENE_NUM"])
    /\ CellIsInt(row["PHASE_NUM"]) \/ current_phase # None
    /\ CellIsInt(row["SCENE_NUM"]) \/ current_scene # None

\* The row is filed under a Group that the tree does not have yet.
CreatesGroup(row) ==
    /\ PassesGates(row)
    /\ (IF CellIsInt(row["PHASE_NUM"]) THEN CellInt(row["PHASE_NUM"]) ELSE current_phase.n)
          \notin DOMAIN phases_dict

BadRange(row) == NotInt(row["PHASE_START"]) \/ NotInt(row["PHASE_END"])

\* A step of the fold processes a row that has a Leaf number.
LeafRowStep ==
    pc = "fold" /\ Len(df') = Len(df) + 1 /\ ~CellAbsent(df'[Len(df')]["SHOT_NUM"])

\* C25 as stated (parse failures abort the fold): a step that processes a row
\* with a Leaf number aborts the fold whenever the row's Group key is given
\* and is no integer literal, its Leaf number is no integer literal, or it
\* creates its Group with a range start or end that is no integer literal.
ParseFailureAborts ==
    [][(LeafRowStep
          /\ LET row == df'[Len(df')] IN
             \/ NotInt(row["PHASE_NUM"])
             \/ NotInt(row["SHOT_NUM"])
             \/ CreatesGroup(row) /\ BadRange(row))
        => (pc' = "failed" /\ phases_dict' = EmptyDict)]_vars

\* When the step of a row with a Leaf number aborts the fold: its Group key is
\* given and is no integer literal, or it passes the Subgroup-key parse and the
\* resolution gate and its Leaf number, or the range start or end of the Group
\* it creates, is no integer literal.
Aborts(row) ==
    \/ NotInt(row["PHASE_NUM"])
    \/ PassesGates(row) /\ NotInt(row["SHOT_NUM"])
    \/ CreatesGroup(row) /\ BadRange(row)

\* C25 as amended: the step of a row with a Leaf number aborts the fold exactly
\* in the cases of Aborts, a Leaf number that is no integer literal counting
\* only on a row that passes the Subgroup-key parse and the resolution gate;
\* an aborted fold leaves no tree and no Document, and the conversion of the
\* source fails with the error; a row with a Subgroup key that is no number
\* never aborts it.
ParseFailureAbortsResolved ==
    /\ [][LeafRowStep =>
             LET row == df'[Len(df')] IN
             /\ pc' = "failed" <=> Aborts(row)
             /\ Aborts(row) => phases_dict' = EmptyDict /\ project' = None
             /\ (NotInt(row["SCENE_NUM"]) /\ ~NotInt(row["PHASE_NUM"])) => pc' = "fold"]_vars
    /\ [](pc = "failed" =>
             /\ project = None
             /\ ConvertOutcome(field_mappings, df, TRUE, TRUE) = "ValueError")

\* C25 witness: after a row filed under 1 / 1, a row with the Leaf number "x"
\* and no keys, which the carried keys resolve, aborted the fold.
ParseFailureAbortsResolvedWitness ==
    /\ pc = "failed" /\ Len(df) = 2
    /\ df[1] = KeyRow(Txt1, Txt1, Txt1)
    /\ df[2] = KeyRow(NaN, NaN, TxtX)
    /\ phases_dict = EmptyDict /\ project = None

(* ------------------------ what clean_value returns ---------------------- *)

\* No table entry can apply to the call: the reader has no tables, no column
\* is named, or the column has no table.
NoTable == field = "" \/ field \notin DOMAIN field_mappings

\* C26 (no blank result): for a string, when no table applies, clean_value
\* returns None or a string with at least one character that is no
\* whitespace.
NeverBlank ==
    (pc = "cleaned" /\ raw.k = "str" /\ NoTable) =>
        \/ cleaned = None
        \/ cleaned.k = "str" /\ \E i \in 1..Len(cleaned.s) : cleaned.s[i] \notin {" ", "\t"}

\* C27 (idempotence): for a string, when no table applies, cleaning what
\* clean_value returned gives it back unchanged.
CleanIdempotent ==
    [][(pc = "cleaned" /\ pc' = "recleaned" /\ raw.k = "str" /\ NoTable)
        => cleaned' = cleaned]_vars

(* --------------------------- statistics per call ------------------------ *)

\* The conversions of call c that failed, in the order they were made.
FailedIn(c) ==
    LET FailedInCall(x) == x.call = c /\ ~x.success IN SelectSeq(converted, FailedInCall)

\* C28 (statistics per call): whenever a call of process_files on a converter
\* has returned, the first or a later one, processed_files + failed_files =
\* total_files, the recorded errors are those of the conversions of that call
\* that failed, and the call returned True exactly when none of them failed.
BatchStatsPerCall ==
    (pc = "idle" /\ Len(returns) >= 1) =>
        /\ stats.processed_files + stats.failed_files = stats.total_files
        /\ Len(stats.errors) = Len(FailedIn(ThisCall))
        /\ \A i \in 1..Len(stats.errors) :
              i <= Len(FailedIn(ThisCall)) => stats.errors[i].file = FailedIn(ThisCall)[i].file
        /\ returns[Len(returns)] <=> (FailedIn(ThisCall) = <<>>)

(* ----------------------------- the ErrorHandler ------------------------- *)

\* C29 (ErrorHandler consistency): after any sequence of start_processing,
\* log_error, log_success and end_processing, stats.failed_files is the number
\* of recorded errors, and has_errors() is true exactly when failed_files > 0.
HandlerConsistent ==
    /\ handler.stats.failed_files = Len(handler.errors)
    /\ has_errors(handler) <=> handler.stats.failed_files > 0

(* ------------------- Subgroup keys with a fraction ---------------------- *)

\* The cell without its minus sign.
Magnitude(v) == IF v.s # <<>> /\ v.s[1] = "-" THEN Tail(v.s) ELSE v.s

\* The cell is a decimal numeral: an optional minus sign, digits, and
\* optionally a point followed by digits.
IsDecimal(v) ==
    /\ v.k = "str"
    /\ DigitsEnd(Magnitude(v)) > 1
    /\ DigitsEnd(Magnitude(v)) <= Len(Magnitude(v)) =>
          /\ Magnitude(v)[DigitsEnd(Magnitude(v))] = "."
          /\ \A i \in (DigitsEnd(Magnitude(v)) + 1)..Len(Magnitude(v)) :
                Magnitude(v)[i] \in Digits

\* Its integer part: the digits before the point, with the sign.
IntegerPart(v) ==
    (IF v.s[1] = "-" THEN -1 ELSE 1)
        * DecVal(SubSeq(Magnitude(v), 1, DigitsEnd(Magnitude(v)) - 1))

\* C30 (truncation toward zero): a row with a Leaf number whose Subgroup-key
\* cell is a decimal numeral, with or without a non-zero fraction, and whose
\* Group key g is given or carried, is not discarded: it is filed under
\* Subgroup (integer part of the numeral) of Group g, and the fold goes on
\* (nothing fails before the Document is materialized).
TruncatesTowardZero ==
    /\ pc = "failed" => build_options # <<>>
    /\ \A i \in 1..Len(df) :
          (HasLeafNumber(i) /\ IsDecimal(df[i]["SCENE_NUM"]) /\ GroupRowOf(i) # 0)
          => FiledUnder(i, CellInt(df[GroupRowOf(i)]["PHASE_NUM"]),
                        IntegerPart(df[i]["SCENE_NUM"]))

\* C30 witness: rows with the Subgroup keys "2", "2.0" and "2.7", all of Group
\* 1, gave one Subgroup, 2, with three Leaves.
TruncatesTowardZeroWitness ==
    /\ pc = "built" /\ Len(df) = 3
    /\ df[1] = KeyRow(Txt1, Txt2, Txt1)
    /\ df[2] = KeyRow(NaN, Txt(<<"2", ".", "0">>), Txt1)
    /\ df[3] = KeyRow(NaN, Txt(<<"2", ".", "7">>), Txt1)
    /\ DOMAIN phases_dict = {1}
    /\ DOMAIN phases_dict[1].scenes = {2}
    /\ Len(project.phases[1].scenes) = 1
    /\ Len(project.phases[1].scenes[1].shots) = 3

====
